---- MODULE Spec2Model ----
(***************************************************************************)
(* Query understanding, decomposition, planning and multi-step execution   *)
(* of the multimodal RAG pipeline (multimodal_rag/retrieval).              *)
(*                                                                         *)
(* Python lists are 0-based: sub-query index i is element i+1 of the TLA+  *)
(* sequence that models the list.                                          *)
(***************************************************************************)
EXTENDS Integers, Sequences, FiniteSets, TLC

VARIABLES
    pl,             \* the locals of one _generate_execution_plan call
    question,       \* the question handed to analyze_and_decompose
    settings,       \* the configuration the components were built with
    llm_reply,      \* what the LLM returned to the latest chat call
    query_intent,   \* the QueryIntent of the question
    decomp_result,  \* the DecompositionResult (or the raise) of the call
    dpc,            \* position in analyze_and_decompose
    execution_context,      \* MultiStepQueryExecutor.execution_context
    accumulated_results,    \* MultiStepQueryExecutor.accumulated_results
    calls,          \* the locals of each process_query / execute_decomposed_query call
    retriever_log,  \* per call, the retrieve() calls it made and what they gave
    rk,             \* a candidate list and what merging, fusing or reranking made of it
    hr              \* a HybridRetriever.retrieve call: its arguments and what it returned

plan_vars == <<pl>>

dec_vars == <<question, settings, llm_reply, query_intent, decomp_result, dpc>>

proc_vars == <<execution_context, accumulated_results, calls, retriever_log>>

rank_vars == <<rk, hr>>

vars == <<pl, question, settings, llm_reply, query_intent, decomp_result, dpc,
          execution_context, accumulated_results, calls, retriever_log, rk, hr>>

(***************************************************************************)
(* Bounds of the model.                                                    *)
(***************************************************************************)
MaxN == 3          \* sub-queries handed to the planner
MaxEdges == 3      \* total number of depends_on entries over all sub-queries
MaxPrio == 2       \* priorities are drawn from 1..MaxPrio
MaxQueryTokens == 3    \* tokens of a question
MaxReplyItems == 2     \* elements of the "sub_queries" list in an LLM reply
MaxExecN == 2          \* sub-queries of a decomposition handed to the executor
MaxPlanLen == 3        \* entries of an execution plan handed to the executor
MaxCandidates == 3     \* chunks of a candidate list handed to merging or reranking
MaxVectorHits == 2     \* chunks the vector search hands to a retrieve call
MaxConcepts == 4       \* key concepts of an intent handed to the rule-based decomposition

(***************************************************************************)
(* Generic helpers for Python list operations.                             *)
(***************************************************************************)
Range(s) == {s[i] : i \in 1..Len(s)}

RECURSIVE SeqsUpTo(_, _)
SeqsUpTo(S, k) ==
    IF k = 0 THEN {<<>>}
    ELSE LET shorter == SeqsUpTo(S, k - 1)
         IN  shorter \cup {Append(s, x) : s \in {t \in shorter : Len(t) = k - 1}, x \in S}

\* number of positions of s that hold x (list.count)
RECURSIVE Count(_, _)
Count(s, x) ==
    IF s = <<>> THEN 0
    ELSE (IF Head(s) = x THEN 1 ELSE 0) + Count(Tail(s), x)

(***************************************************************************)
(* Values that arrive from parsed JSON (and the Python values None, int,   *)
(* str, list they become) keep their dynamic type: a number, a string, a   *)
(* null or a list of such values.                                          *)
(***************************************************************************)
JNum(v) == [kind |-> "num", v |-> v]
JStr == [kind |-> "str"]
JNull == [kind |-> "null"]
JMissing == [kind |-> "missing"]
JList(items) == [kind |-> "list", items |-> items]

\* a list of integers as a Python list value
IntList(s) == JList([i \in 1..Len(s) |-> JNum(s[i])])

(***************************************************************************)
(* query_structures.SubQuery: priority and depends_on are not validated,   *)
(* so they hold whatever value the producer put there.                     *)
(***************************************************************************)
SubQuery(query, intent, priority, depends_on, context_needed) ==
    [query |-> query, intent |-> intent, priority |-> priority,
     depends_on |-> depends_on, context_needed |-> context_needed]

(***************************************************************************)
(* IntelligentQueryDecomposer._generate_execution_plan                     *)
(*                                                                         *)
(* The recursion of dfs is kept as an explicit call stack: a frame is      *)
(* [node, pos, entered]; pos is the position of the for-loop over the      *)
(* node's dependencies, entered is FALSE until the two guards at the top   *)
(* of dfs have been passed.                                                *)
(***************************************************************************)

\* sorted(range(len(sub_queries)), key=lambda x: sub_queries[x].priority):
\* ascending and stable (insertion of node i after every node of priority <= its own)
RECURSIVE InsertByPriority(_, _, _)
InsertByPriority(sorted, node, sqs) ==
    IF sorted = <<>> THEN <<node>>
    ELSE IF sqs[Head(sorted) + 1].priority.v <= sqs[node + 1].priority.v
         THEN <<Head(sorted)>> \o InsertByPriority(Tail(sorted), node, sqs)
         ELSE <<node>> \o sorted

RECURSIVE SortedPrefix(_, _)
SortedPrefix(sqs, k) ==
    IF k = 0 THEN <<>>
    ELSE InsertByPriority(SortedPrefix(sqs, k - 1), k - 1, sqs)

nodes_by_priority(sqs) == SortedPrefix(sqs, Len(sqs))

\* sorted() compares the keys of at least two elements with "<", which is a
\* TypeError unless the priorities are numbers
SortRaises(sqs) ==
    Len(sqs) >= 2 /\ \E i \in 1..Len(sqs) : sqs[i].priority.kind # "num"

\* "x or []": None, the empty list and 0 are falsy
Falsy(val) ==
    \/ val.kind \in {"null", "missing"}
    \/ val.kind = "list" /\ val.items = <<>>
    \/ val.kind = "num" /\ val.v = 0

\* dependency_graph.get(node, []) with dependency_graph[i] = sq.depends_on or []
dependency_graph(sqs, node) ==
    IF node >= 0 /\ node < Len(sqs) /\ ~Falsy(sqs[node + 1].depends_on)
    THEN sqs[node + 1].depends_on
    ELSE JList(<<>>)

\* the check guarding the recursive call: "if dep < len(sub_queries)"
DepIsFollowedOffByOne(dep, n) == dep < n - 1

DepIsFollowed(dep, n) == dep < n

Frame(node) == [node |-> node, pos |-> 1, entered |-> FALSE]

Top(stack) == stack[Len(stack)]
Pop(stack) == SubSeq(stack, 1, Len(stack) - 1)

PlanInit(sqs) ==
    [sub_queries |-> sqs, execution_plan |-> <<>>, visited |-> {},
     temp_visited |-> {}, stack |-> <<>>, order |-> <<>>, next |-> 1,
     pc |-> "start"]

\* lines 451-452 and 483-485: empty input returns [], otherwise the nodes are sorted
PlanStartStep(st) ==
    IF st.sub_queries = <<>>
    THEN [st EXCEPT !.pc = "done"]
    ELSE IF SortRaises(st.sub_queries)
    THEN [st EXCEPT !.pc = "raised"]
    ELSE [st EXCEPT !.order = nodes_by_priority(st.sub_queries), !.pc = "loop"]

\* lines 487-491: "for node in nodes_by_priority: if node not in visited: dfs(node)"
PlanLoopStep(st) ==
    IF st.next > Len(st.order)
    THEN [st EXCEPT !.pc = "done"]
    ELSE LET node == st.order[st.next]
         IN  IF node \notin st.visited
             THEN [st EXCEPT !.next = @ + 1, !.stack = <<Frame(node)>>, !.pc = "dfs"]
             ELSE [st EXCEPT !.next = @ + 1]

\* return from the innermost dfs call
DfsReturn(st) ==
    [st EXCEPT !.stack = Pop(@), !.pc = IF Len(st.stack) = 1 THEN "loop" ELSE "dfs"]

\* variant that emits the node again when the cycle guard fires
DfsEnterStepEmitOnCycle(st) ==
    LET f == Top(st.stack)
    IN  IF f.node \in st.temp_visited
        THEN DfsReturn([st EXCEPT !.execution_plan = Append(@, f.node)])
        ELSE IF f.node \in st.visited THEN DfsReturn(st)
        ELSE [st EXCEPT !.temp_visited = @ \cup {f.node},
                        !.stack[Len(st.stack)].entered = TRUE]

\* lines 465-472: the two guards and temp_visited.add(node)
DfsEnterStep(st) ==
    LET f == Top(st.stack)
    IN  IF f.node \in st.temp_visited THEN DfsReturn(st)
        ELSE IF f.node \in st.visited THEN DfsReturn(st)
        ELSE [st EXCEPT !.temp_visited = @ \cup {f.node},
                        !.stack[Len(st.stack)].entered = TRUE]

\* lines 475-481: one iteration of the loop over the dependencies, or the
\* code after the loop
DfsIterateStep(st) ==
    LET f    == Top(st.stack)
        deps == dependency_graph(st.sub_queries, f.node)
    IN  IF deps.kind # "list"
        THEN [st EXCEPT !.pc = "raised"]           \* TypeError: not iterable
        ELSE IF f.pos <= Len(deps.items)
        THEN LET dep == deps.items[f.pos]
                 adv == [st EXCEPT !.stack[Len(st.stack)].pos = @ + 1]
             IN  IF dep.kind # "num"
                 THEN [st EXCEPT !.pc = "raised"]  \* TypeError: "<" on str and int
                 ELSE IF DepIsFollowed(dep.v, Len(st.sub_queries))
                 THEN [adv EXCEPT !.stack = Append(@, Frame(dep.v))]
                 ELSE adv
        ELSE LET fin == [st EXCEPT !.temp_visited = @ \ {f.node},
                                   !.visited = @ \cup {f.node},
                                   !.execution_plan = Append(@, f.node)]
             IN  DfsReturn(fin)

PlanStepOf(st) ==
    CASE st.pc = "start" -> PlanStartStep(st)
      [] st.pc = "loop"  -> PlanLoopStep(st)
      [] st.pc = "dfs" /\ ~Top(st.stack).entered -> DfsEnterStep(st)
      [] st.pc = "dfs" /\ Top(st.stack).entered  -> DfsIterateStep(st)

RECURSIVE PlanRun(_)
PlanRun(st) == IF st.pc \in {"done", "raised"} THEN st ELSE PlanRun(PlanStepOf(st))

\* the final state of the call: pc = "done" with the plan, or pc = "raised"
generate_execution_plan(sqs) == PlanRun(PlanInit(sqs))

(***************************************************************************)
(* Text.  A Python string is a sequence of tokens [t, n]: the first n       *)
(* characters of the piece of text named t.  A piece is one of the words   *)
(* the code looks for (written in pinyin), a blank, a question mark, a     *)
(* literal of the code or a run of other characters.  "kw in query" is     *)
(* the presence of the whole word, len() adds up the token lengths,        *)
(* str.split() cuts at blanks, s[:k] keeps the first k characters.         *)
(*   bijiao 比较  duibi 对比  fenxi 分析  pinggu 评估  zongjie 总结        *)
(*   guina 归纳  ruhe 如何  weishenme 为什么  yuanyin 原因  yingxiang 影响 *)
(*   guanxi 关系  he 和  yu 与  yiji 以及  tongshi 同时  lingwai 另外      *)
(*   ciwai 此外  erqie 而且  bingqie 并且  qubie 区别  zenme 怎么          *)
(*   buzhou 步骤  fangfa 方法  shenme 什么  naxie 哪些                     *)
(*   "?" ASCII question mark, "?cn" full-width question mark,              *)
(*   w3 a 3-character word, pad150 a run of 150 other characters,          *)
(*   c100a, c100b, c100c runs of 100 characters of chunk content,          *)
(*   s5 a chunk content of 5 characters,                                   *)
(*   kwa, kwb two 3-letter lower-case Latin words,                         *)
(*   A, B the letters, "de-youquedian" the four characters "的优缺点",      *)
(*   "xiangguan-xinxi: " the literal "相关信息: ", "..." the ellipsis,     *)
(*   "jiyu-yishang-xinxi" the literal "\n\n基于以上信息，".                 *)
(***************************************************************************)
TokLen(tok) ==
    CASE tok \in {"he", "yu", " ", "?", "?cn", "A", "B"} -> 1
      [] tok \in {"weishenme", "w3", "...", "kwa", "kwb"} -> 3
      [] tok = "pad150" -> 150
      [] tok \in {"c100a", "c100b", "c100c"} -> 100
      [] tok = "s5" -> 5
      [] tok = "de-youquedian" -> 4
      [] tok = "xiangguan-xinxi: " -> 6
      [] tok = "jiyu-yishang-xinxi" -> 9
      [] OTHER -> 2

\* the whole piece of text named t
W(t) == [t |-> t, n |-> TokLen(t)]

RECURSIVE StrLen(_)
StrLen(str) == IF str = <<>> THEN 0 ELSE Head(str).n + StrLen(Tail(str))

Min(a, b) == IF a <= b THEN a ELSE b

Max(a, b) == IF a >= b THEN a ELSE b

\* "any(word in query for word in words)"
AnyIn(words, query) == \E w \in words : W(w) \in Range(query)

\* number of the listed words that occur in the query
HowManyIn(words, query) == Cardinality({w \in words : W(w) \in Range(query)})

\* str.split(): the maximal runs of non-blank tokens
RECURSIVE SplitWords(_, _)
SplitWords(str, cur) ==
    IF str = <<>> THEN (IF cur = <<>> THEN <<>> ELSE <<cur>>)
    ELSE IF Head(str).t = " "
         THEN (IF cur = <<>> THEN <<>> ELSE <<cur>>) \o SplitWords(Tail(str), <<>>)
         ELSE SplitWords(Tail(str), Append(cur, Head(str)))

split(str) == SplitWords(str, <<>>)

\* s[:k] on a list
Take(s, k) == SubSeq(s, 1, Min(k, Len(s)))

\* s[:k] on a string: the first k characters
RECURSIVE SliceChars(_, _)
SliceChars(str, k) ==
    IF str = <<>> \/ k <= 0 THEN <<>>
    ELSE IF Head(str).n <= k THEN <<Head(str)>> \o SliceChars(Tail(str), k - Head(str).n)
    ELSE <<[Head(str) EXCEPT !.n = k]>>

\* sep.join(parts)
RECURSIVE JoinWith(_, _)
JoinWith(parts, sep) ==
    IF parts = <<>> THEN <<>>
    ELSE IF Len(parts) = 1 THEN Head(parts)
    ELSE Head(parts) \o sep \o JoinWith(Tail(parts), sep)

RECURSIVE SelectSeq2(_, _)
SelectSeq2(s, S) ==
    IF s = <<>> THEN <<>>
    ELSE (IF Head(s) \in S THEN <<Head(s)>> ELSE <<>>) \o SelectSeq2(Tail(s), S)

(***************************************************************************)
(* query_structures.QueryIntent.  Scores are kept in hundredths            *)
(* (6.0 is 600), so len(query) / 50 is 2 * len(query).                     *)
(***************************************************************************)
QueryIntent(intent_type, complexity_score, key_concepts, question_type, requires_decomposition, reasoning) ==
    [intent_type |-> intent_type, complexity_score |-> complexity_score,
     key_concepts |-> key_concepts, question_type |-> question_type,
     requires_decomposition |-> requires_decomposition, reasoning |-> reasoning]

complex_keywords ==
    {"bijiao", "duibi", "fenxi", "pinggu", "zongjie", "guina", "ruhe",
     "weishenme", "yuanyin", "yingxiang", "guanxi"}

connectors == {"he", "yu", "yiji", "tongshi", "lingwai", "ciwai", "erqie", "bingqie"}

\* lines 174-192, before the clamp of line 224
RawComplexity(query) ==
    Min(2 * StrLen(query), 300)
    + 150 * HowManyIn(complex_keywords, query)
    + 100 * HowManyIn(connectors, query)
    + 50 * Count(query, W("?")) + 50 * Count(query, W("?cn"))

\* lines 215-220 and the [:5] of line 225
ExtractKeyConcepts(query) ==
    LET words == split(query)
        kept  == {w \in Range(words) :
                     StrLen(w) > 2 /\ w \notin {<<W("ruhe")>>, <<W("weishenme")>>,
                                                <<W("shenme")>>, <<W("naxie")>>,
                                                <<W("zenme")>>}}
    IN  Take(SelectSeq2(words, kept), 5)

\* f"基于规则分析，复杂度评分: {complexity_score:.1f}": the score rounded to tenths
RuleReasoning(score) == [text |-> "rule", tenths |-> (score + 5) \div 10]

rule_based_intent_analysis(query, config) ==
    LET complexity_score == RawComplexity(query)
        intent_type ==
            IF AnyIn({"bijiao", "duibi", "qubie"}, query) THEN "comparative"
            ELSE IF AnyIn({"he", "yu", "yiji"}, query) /\ complexity_score > 500
                 THEN "multi_aspect"
            ELSE IF complexity_score > 600 THEN "complex"
            ELSE "simple"
        question_type ==
            IF AnyIn({"ruhe", "zenme", "buzhou", "fangfa"}, query) THEN "procedural"
            ELSE IF AnyIn({"weishenme", "yuanyin", "fenxi", "pinggu"}, query) THEN "analytical"
            ELSE IF AnyIn({"bijiao", "duibi", "qubie"}, query) THEN "comparative"
            ELSE "factual"
    IN  QueryIntent(intent_type, Min(complexity_score, 1000),
                    JList(ExtractKeyConcepts(query)), question_type,
                    complexity_score >= config.decomposition_threshold,
                    RuleReasoning(complexity_score))

(***************************************************************************)
(* What one llm.chat(messages) call gives back:                            *)
(*   raise          the call raises                                        *)
(*   none           nothing is yielded (response stays None)               *)
(*   not_assistant  the last message is not an ASSISTANT message           *)
(*   no_json        the content holds no "{...}"                           *)
(*   bad_json       json.loads raises on the matched text                  *)
(*   json           a JSON object; a key that is absent is JMissing        *)
(***************************************************************************)
ReplyFailureKinds == {"raise", "none", "not_assistant", "no_json", "bad_json"}

IntentData(intent_type, complexity_score, key_concepts, question_type, requires_decomposition, reasoning) ==
    [intent_type |-> intent_type, complexity_score |-> complexity_score,
     key_concepts |-> key_concepts, question_type |-> question_type,
     requires_decomposition |-> requires_decomposition, reasoning |-> reasoning]

NoIntentData == IntentData("", JMissing, JMissing, "", "", "")

IntentReply(kind, data) == [kind |-> kind, data |-> data]

\* dict.get(key, default) for the keys whose value is a plain string or bool
\* ("" stands for an absent key)
GetOr(val, default) == IF val = "" THEN default ELSE val

\* float(x) raises unless x is a number
FloatRaises(val) == val.kind \notin {"num", "missing"}

\* variant in which a complexity_score that float() rejects is replaced by
\* the default instead of abandoning the reply
analyze_query_intent_DefaultOnBadScore(query, config, reply) ==
    IF ~config.llm THEN rule_based_intent_analysis(query, config)
    ELSE IF reply.kind = "json"
    THEN LET d == reply.data
         IN  QueryIntent(GetOr(d.intent_type, "simple"),
                         IF d.complexity_score.kind # "num" THEN 300
                         ELSE d.complexity_score.v,
                         IF d.key_concepts.kind = "missing" THEN JList(<<>>)
                         ELSE d.key_concepts,
                         GetOr(d.question_type, "factual"),
                         IF d.requires_decomposition = "" THEN FALSE
                         ELSE d.requires_decomposition = "true",
                         [text |-> d.reasoning, tenths |-> 0])
    ELSE rule_based_intent_analysis(query, config)

\* lines 106-161
analyze_query_intent(query, config, reply) ==
    IF ~config.llm THEN rule_based_intent_analysis(query, config)
    ELSE IF reply.kind = "json" /\ ~FloatRaises(reply.data.complexity_score)
    THEN LET d == reply.data
         IN  QueryIntent(GetOr(d.intent_type, "simple"),
                         IF d.complexity_score.kind = "missing" THEN 300
                         ELSE d.complexity_score.v,
                         IF d.key_concepts.kind = "missing" THEN JList(<<>>)
                         ELSE d.key_concepts,
                         GetOr(d.question_type, "factual"),
                         IF d.requires_decomposition = "" THEN FALSE
                         ELSE d.requires_decomposition = "true",
                         [text |-> d.reasoning, tenths |-> 0])
    ELSE rule_based_intent_analysis(query, config)

(***************************************************************************)
(* Rule-based decomposition (lines 315-439).  A result is                  *)
(* [raised, sub_queries]; raised is TRUE when the code raises a TypeError  *)
(* on key_concepts that is None instead of a list.  The dataclass default  *)
(* of depends_on is None.                                                  *)
(***************************************************************************)
Returned(sub_queries) == [raised |-> FALSE, sub_queries |-> sub_queries]

Raised == [raised |-> TRUE, sub_queries |-> <<>>]

SimpleSubQuery(query) == SubQuery(query, <<W("simple")>>, JNum(1), JNull, FALSE)

\* variant whose comparison sub-query names no dependency
decompose_comparative_query_NoDeps(query, intent) ==
    IF intent.key_concepts.kind # "list" THEN Raised
    ELSE LET concepts == intent.key_concepts.items
         IN  IF Len(concepts) >= 2
             THEN Returned(
                    [i \in 1..2 |->
                        SubQuery(concepts[i] \o <<W("de-tedian-he-shuxing")>>,
                                 <<W("liaojie")>> \o concepts[i] \o <<W("de-jiben-xinxi")>>,
                                 JNum(1), JNull, FALSE)]
                    \o <<SubQuery(concepts[1] \o <<W("he")>> \o concepts[2] \o <<W("de-bijiao-fenxi")>>,
                                  <<W("bijiao-fenxi-liangzhe-de-chayi")>>,
                                  JNum(2), JNull, TRUE)>>)
             ELSE Returned(<<>>)

decompose_comparative_query(query, intent) ==
    IF intent.key_concepts.kind # "list" THEN Raised        \* len(None)
    ELSE LET concepts == intent.key_concepts.items
         IN  IF Len(concepts) >= 2
             THEN Returned(
                    [i \in 1..2 |->
                        SubQuery(concepts[i] \o <<W("de-tedian-he-shuxing")>>,
                                 <<W("liaojie")>> \o concepts[i] \o <<W("de-jiben-xinxi")>>,
                                 JNum(1), JNull, FALSE)]
                    \o <<SubQuery(concepts[1] \o <<W("he")>> \o concepts[2] \o <<W("de-bijiao-fenxi")>>,
                                  <<W("bijiao-fenxi-liangzhe-de-chayi")>>,
                                  JNum(2), IntList(<<0, 1>>), TRUE)>>)
             ELSE Returned(<<>>)

\* "、".join(concepts)
RECURSIVE JoinConcepts(_)
JoinConcepts(concepts) ==
    IF concepts = <<>> THEN <<>>
    ELSE IF Len(concepts) = 1 THEN Head(concepts)
    ELSE Head(concepts) \o <<W("dunhao")>> \o JoinConcepts(Tail(concepts))

\* variant that adds the synthesis sub-query for a single concept as well
decompose_multi_aspect_query_AlwaysSynthesis(query, intent) ==
    IF intent.key_concepts.kind # "list" THEN Raised
    ELSE LET concepts == intent.key_concepts.items
             aspects  == [i \in 1..Min(3, Len(concepts)) |->
                            SubQuery(concepts[i] \o <<W("de-xiangxi-xinxi-he-xiangguan-neirong")>>,
                                     <<W("liaojie")>> \o concepts[i] \o <<W("de-juti-qingkuang")>>,
                                     JNum(1), JNull, FALSE)]
         IN  IF Len(concepts) > 0
             THEN Returned(Append(aspects,
                      SubQuery(JoinConcepts(Take(concepts, 3)) \o <<W("zhijian-de-guanxi-he-zonghe-fenxi")>>,
                               <<W("zonghe-fenxi-ge-fangmian-de-guanxi")>>,
                               JNum(2),
                               IntList([i \in 1..Len(aspects) |-> i - 1]),
                               TRUE)))
             ELSE Returned(aspects)

decompose_multi_aspect_query(query, intent) ==
    IF intent.key_concepts.kind # "list" THEN Raised        \* None[:3]
    ELSE LET concepts == intent.key_concepts.items
             aspects  == [i \in 1..Min(3, Len(concepts)) |->
                            SubQuery(concepts[i] \o <<W("de-xiangxi-xinxi-he-xiangguan-neirong")>>,
                                     <<W("liaojie")>> \o concepts[i] \o <<W("de-juti-qingkuang")>>,
                                     JNum(1), JNull, FALSE)]
         IN  IF Len(concepts) > 1
             THEN Returned(Append(aspects,
                      SubQuery(JoinConcepts(Take(concepts, 3)) \o <<W("zhijian-de-guanxi-he-zonghe-fenxi")>>,
                               <<W("zonghe-fenxi-ge-fangmian-de-guanxi")>>,
                               JNum(2),
                               IntList([i \in 1..Len(aspects) |-> i - 1]),
                               TRUE)))
             ELSE Returned(aspects)

\* variant in which the sub-queries of a procedural question carry the
\* priorities 2 and 1
decompose_complex_query_StepsFirst(query, intent) ==
    LET has_concepts == intent.key_concepts.kind = "list" /\ intent.key_concepts.items # <<>>
    IN  IF intent.question_type = "procedural"
        THEN Returned(
               <<SubQuery((IF has_concepts THEN intent.key_concepts.items[1] ELSE <<>>)
                              \o <<W("de-jiben-gainian-he-dingyi")>>,
                          <<W("liaojie-jiben-gainian")>>, JNum(2), JNull, FALSE),
                 SubQuery(query \o <<W("de-juti-buzhou-he-fangfa")>>,
                          <<W("huoqu-juti-caozuo-buzhou")>>, JNum(1), IntList(<<0>>), TRUE)>>)
        ELSE IF intent.question_type = "analytical"
        THEN IF has_concepts
             THEN LET main_concept == intent.key_concepts.items[1]
                  IN  Returned(
                        <<SubQuery(main_concept \o <<W("de-jiben-qingkuang-he-beijing")>>,
                                   <<W("liaojie-beijing-xinxi")>>, JNum(1), JNull, FALSE),
                          SubQuery(main_concept \o <<W("de-yingxiang-yinsu-he-yuanyin-fenxi")>>,
                                   <<W("fenxi-yingxiang-yinsu")>>, JNum(2), IntList(<<0>>), TRUE)>>)
             ELSE Returned(<<>>)
        ELSE IF intent.key_concepts.kind # "list" THEN Raised
        ELSE LET concepts == Take(intent.key_concepts.items, 2)
             IN  Returned([i \in 1..Len(concepts) |->
                            SubQuery(concepts[i] \o <<W("de-xiangxi-xinxi")>>,
                                     <<W("liaojie")>> \o concepts[i],
                                     JNum(1), JNull, FALSE)])

decompose_complex_query(query, intent) ==
    LET has_concepts == intent.key_concepts.kind = "list" /\ intent.key_concepts.items # <<>>
    IN  IF intent.question_type = "procedural"
        THEN Returned(
               <<SubQuery((IF has_concepts THEN intent.key_concepts.items[1] ELSE <<>>)
                              \o <<W("de-jiben-gainian-he-dingyi")>>,
                          <<W("liaojie-jiben-gainian")>>, JNum(1), JNull, FALSE),
                 SubQuery(query \o <<W("de-juti-buzhou-he-fangfa")>>,
                          <<W("huoqu-juti-caozuo-buzhou")>>, JNum(2), IntList(<<0>>), TRUE)>>)
        ELSE IF intent.question_type = "analytical"
        THEN IF has_concepts
             THEN LET main_concept == intent.key_concepts.items[1]
                  IN  Returned(
                        <<SubQuery(main_concept \o <<W("de-jiben-qingkuang-he-beijing")>>,
                                   <<W("liaojie-beijing-xinxi")>>, JNum(1), JNull, FALSE),
                          SubQuery(main_concept \o <<W("de-yingxiang-yinsu-he-yuanyin-fenxi")>>,
                                   <<W("fenxi-yingxiang-yinsu")>>, JNum(2), IntList(<<0>>), TRUE)>>)
             ELSE Returned(<<>>)
        ELSE IF intent.key_concepts.kind # "list" THEN Raised   \* None[:2]
        ELSE LET concepts == Take(intent.key_concepts.items, 2)
             IN  Returned([i \in 1..Len(concepts) |->
                            SubQuery(concepts[i] \o <<W("de-xiangxi-xinxi")>>,
                                     <<W("liaojie")>> \o concepts[i],
                                     JNum(1), JNull, FALSE)])

rule_based_decomposition(query, intent) ==
    IF intent.intent_type = "comparative" THEN decompose_comparative_query(query, intent)
    ELSE IF intent.intent_type = "multi_aspect" THEN decompose_multi_aspect_query(query, intent)
    ELSE IF intent.intent_type = "complex" THEN decompose_complex_query(query, intent)
    ELSE Returned(<<SimpleSubQuery(query)>>)

(***************************************************************************)
(* LLM-backed decomposition (lines 242-313).  The reply's "sub_queries"    *)
(* value is absent, null or a list; an element of the list is a JSON       *)
(* object (is_dict) or something else.  In an object, an absent query or   *)
(* intent is <<>> (the default ''), an absent priority or depends_on is    *)
(* JMissing.                                                               *)
(***************************************************************************)
DecompItem(is_dict, query, intent, priority, depends_on, context_needed) ==
    [is_dict |-> is_dict, query |-> query, intent |-> intent, priority |-> priority,
     depends_on |-> depends_on, context_needed |-> context_needed]

DecompReply(kind, sq_kind, items) == [kind |-> kind, sq_kind |-> sq_kind, items |-> items]

\* lines 298-304: SubQuery(query=sq_data.get('query', ''), ...)
SubQueryFromItem(item) ==
    SubQuery(item.query, item.intent,
             IF item.priority.kind = "missing" THEN JNum(3) ELSE item.priority,
             IF item.depends_on.kind = "missing" THEN JList(<<>>) ELSE item.depends_on,
             item.context_needed)

decompose_query(query, intent, config, reply) ==
    IF ~config.llm THEN rule_based_decomposition(query, intent)
    ELSE IF intent.key_concepts.kind # "list"           \* ', '.join(None) raises in the try
    THEN rule_based_decomposition(query, intent)
    ELSE IF reply.kind = "json" /\ reply.sq_kind = "missing" THEN Returned(<<>>)
    ELSE IF reply.kind = "json" /\ reply.sq_kind = "list"
                                /\ \A i \in 1..Len(reply.items) : reply.items[i].is_dict
    THEN Returned(Take([i \in 1..Len(reply.items) |-> SubQueryFromItem(reply.items[i])],
                       config.max_sub_queries))
    ELSE rule_based_decomposition(query, intent)

(***************************************************************************)
(* analyze_and_decompose (lines 55-94), given the two replies the LLM      *)
(* gives to the two chat calls.                                            *)
(***************************************************************************)
DecompositionResult(original_query, intent, sub_queries, execution_plan) ==
    [raised |-> FALSE, original_query |-> original_query, intent |-> intent,
     sub_queries |-> sub_queries, execution_plan |-> execution_plan]

DecompositionRaised(original_query, intent) ==
    [raised |-> TRUE, original_query |-> original_query, intent |-> intent,
     sub_queries |-> <<>>, execution_plan |-> <<>>]

\* variant without the early return of lines 71-78
decompose_with_intent_NoEarlyReturn(query, intent, config, decomp_reply) ==
    LET d == decompose_query(query, intent, config, decomp_reply)
    IN  IF d.raised THEN DecompositionRaised(query, intent)
        ELSE LET p == generate_execution_plan(d.sub_queries)
             IN  IF p.pc = "raised" THEN DecompositionRaised(query, intent)
                 ELSE DecompositionResult(query, intent, d.sub_queries, p.execution_plan)

\* lines 70-94, after the intent has been analysed
decompose_with_intent(query, intent, config, decomp_reply) ==
    IF ~intent.requires_decomposition
    THEN DecompositionResult(query, intent, <<SimpleSubQuery(query)>>, <<0>>)
    ELSE LET d == decompose_query(query, intent, config, decomp_reply)
         IN  IF d.raised THEN DecompositionRaised(query, intent)
             ELSE LET p == generate_execution_plan(d.sub_queries)
                  IN  IF p.pc = "raised" THEN DecompositionRaised(query, intent)
                      ELSE DecompositionResult(query, intent, d.sub_queries, p.execution_plan)

analyze_and_decompose(query, config, intent_reply, decomp_reply) ==
    decompose_with_intent(query, analyze_query_intent(query, config, intent_reply),
                          config, decomp_reply)

(***************************************************************************)
(* MultiStepQueryExecutor.  A retrieved chunk is [content, score].         *)
(***************************************************************************)
Chunk(content, score) == [content |-> content, score |-> score]

\* variant of lines 104-131 that adds context whether or not the sub-query
\* asks for it
build_query_context_IgnoreFlag(sub_query, ctx, config) ==
    IF Falsy(sub_query.depends_on)
    THEN sub_query.query
    ELSE LET deps == sub_query.depends_on.items
             \* the parts contributed by the dependencies from position i on
             PartsOf(dep) ==
                 IF dep.kind = "num" /\ dep.v \in DOMAIN ctx
                 THEN LET top == Take(ctx[dep.v].results, 2)
                      IN  [j \in 1..Len(top) |->
                              <<W("xiangguan-xinxi: ")>> \o SliceChars(top[j].content, 200)]
                 ELSE <<>>
             AllParts[i \in 1..(Len(deps) + 1)] ==
                 IF i > Len(deps) THEN <<>> ELSE PartsOf(deps[i]) \o AllParts[i + 1]
             context_parts == AllParts[1]
             joined == JoinWith(context_parts, <<W(" ")>>)
             context == IF StrLen(joined) > config.max_context_length
                        THEN SliceChars(joined, config.max_context_length) \o <<W("...")>>
                        ELSE joined
         IN  IF context_parts # <<>>
             THEN context \o <<W("jiyu-yishang-xinxi")>> \o sub_query.query
             ELSE sub_query.query

\* lines 104-131
build_query_context(sub_query, ctx, config) ==
    IF ~sub_query.context_needed \/ Falsy(sub_query.depends_on)
    THEN sub_query.query
    ELSE LET deps == sub_query.depends_on.items
             \* the parts contributed by the dependencies from position i on
             PartsOf(dep) ==
                 IF dep.kind = "num" /\ dep.v \in DOMAIN ctx
                 THEN LET top == Take(ctx[dep.v].results, 2)
                      IN  [j \in 1..Len(top) |->
                              <<W("xiangguan-xinxi: ")>> \o SliceChars(top[j].content, 200)]
                 ELSE <<>>
             AllParts[i \in 1..(Len(deps) + 1)] ==
                 IF i > Len(deps) THEN <<>> ELSE PartsOf(deps[i]) \o AllParts[i + 1]
             context_parts == AllParts[1]
             joined == JoinWith(context_parts, <<W(" ")>>)
             context == IF StrLen(joined) > config.max_context_length
                        THEN SliceChars(joined, config.max_context_length) \o <<W("...")>>
                        ELSE joined
         IN  IF context_parts # <<>>
             THEN context \o <<W("jiyu-yishang-xinxi")>> \o sub_query.query
             ELSE sub_query.query

\* variant that compares whole contents
FingerprintWholeContent(result) == result.content

\* content[:100] if content else ''
Fingerprint(result) == SliceChars(result.content, 100)

\* lines 147-157: the first chunk of every fingerprint, in order
RECURSIVE UniqueResults(_, _)
UniqueResults(results, seen_contents) ==
    IF results = <<>> THEN <<>>
    ELSE IF Fingerprint(Head(results)) \in seen_contents
         THEN UniqueResults(Tail(results), seen_contents)
         ELSE <<Head(results)>>
              \o UniqueResults(Tail(results), seen_contents \cup {Fingerprint(Head(results))})

\* list.sort(key=score, reverse=True): descending, equal scores keep their order
RECURSIVE InsertByScore(_, _)
InsertByScore(sorted, result) ==
    IF sorted = <<>> THEN <<result>>
    ELSE IF Head(sorted).score >= result.score
         THEN <<Head(sorted)>> \o InsertByScore(Tail(sorted), result)
         ELSE <<result>> \o sorted

RECURSIVE SortByScore(_)
SortByScore(results) ==
    IF results = <<>> THEN <<>>
    ELSE InsertByScore(SortByScore(SubSeq(results, 1, Len(results) - 1)),
                       results[Len(results)])

\* variant that sorts by score before it removes the duplicates
fuse_results_SortBeforeDedup(results, config) ==
    IF ~config.enable_result_fusion THEN results
    ELSE UniqueResults(SortByScore(results), {})

\* lines 143-162
fuse_results(results, config) ==
    IF ~config.enable_result_fusion THEN results
    ELSE SortByScore(UniqueResults(results, {}))

\* sub_queries[query_idx] with Python's negative indexing
IndexRaises(sqs, query_idx) == query_idx < 0 - Len(sqs)

ItemAt(sqs, query_idx) ==
    IF query_idx >= 0 THEN sqs[query_idx + 1] ELSE sqs[Len(sqs) + query_idx + 1]

\* self.execution_context[query_idx] = {...}
StoreContext(ctx, query_idx, entry) ==
    [k \in DOMAIN ctx \cup {query_idx} |->
        IF k = query_idx THEN entry ELSE ctx[k]]

ContextEntry(query, results, step) == [query |-> query, results |-> results, step |-> step]

(***************************************************************************)
(* ResultSynthesizer.  An answer is a string; the fixed messages are       *)
(*   sorry-no-info           "抱歉，没有找到相关信息。"                    *)
(*   sorry-no-info-question  "抱歉，没有找到相关信息来回答您的问题。"      *)
(*   sorry-no-image          "抱歉，没有找到相关的图像信息。"              *)
(*   not-found               "未找到相关信息"                              *)
(* and para-break is "\n\n".  A chat reply of the answering LLM is         *)
(* [kind, content] with kind raise, none, not_assistant or text.           *)
(***************************************************************************)
SorryNoInfo == <<W("sorry-no-info")>>

SorryNoInfoForQuestion == <<W("sorry-no-info-question")>>

SorryNoImage == <<W("sorry-no-image")>>

NotFoundText == <<W("not-found")>>

AnswerReply(kind, content) == [kind |-> kind, content |-> content]

\* str.strip(): white space at both ends is dropped
RECURSIVE LStrip(_)
LStrip(str) ==
    IF str = <<>> THEN <<>>
    ELSE IF Head(str).t = " " THEN LStrip(Tail(str)) ELSE str

RECURSIVE RStrip(_)
RStrip(str) ==
    IF str = <<>> THEN <<>>
    ELSE IF str[Len(str)].t = " " THEN RStrip(SubSeq(str, 1, Len(str) - 1)) ELSE str

Strip(str) == RStrip(LStrip(str))

\* the elements of a list that are not the empty string, in order
NonEmpty(strs) == SelectSeq(strs, LAMBDA x : x # <<>>)

\* lines 526-546, on an answer of one line
post_process_answer(answer, config) ==
    IF StrLen(answer) > config.max_synthesis_length
    THEN SliceChars(answer, config.max_synthesis_length) \o <<W("...")>>
    ELSE answer

\* lines 502-524; the chunk contents hold no sentence end, so a content of
\* more than 500 characters is cut at 500
rule_generate_simple_answer(results) ==
    LET top == Take(results, 3)
        contents == NonEmpty([i \in 1..Len(top) |->
                       LET content == Strip(top[i].content)
                       IN  IF StrLen(content) > 500
                           THEN SliceChars(content, 500) \o <<W("...")>>
                           ELSE content])
    IN  IF contents # <<>> THEN JoinWith(contents, <<W("para-break")>>)
        ELSE SorryNoInfo

image_keywords ==
    {"tupian", "tuxiang", "zhaopian", "tubiao", "tuxing", "shiyitu", "liuchengtu",
     "diyizhang", "dierzhang", "disanzhang", "zuihouyizhang",
     "image", "picture", "figure", "chart", "diagram"}

\* lines 377-385
is_image_query(query) == AnyIn(image_keywords, query)

\* lines 387-401: no chunk is an image chunk or names an image
handle_image_query(query, results) == SorryNoImage

\* lines 326-375
llm_generate_simple_answer(query, results, config, reply) ==
    IF is_image_query(query) THEN handle_image_query(query, results)
    ELSE LET top == Take(results, 5)
             context_parts == NonEmpty([i \in 1..Len(top) |-> Strip(top[i].content)])
         IN  IF context_parts = <<>> THEN SorryNoInfo
             ELSE IF reply.kind = "text"
                  THEN post_process_answer(Strip(reply.content), config)
                  ELSE rule_generate_simple_answer(results)

\* lines 314-324
generate_simple_answer(query, results, config, reply) ==
    IF results = <<>> THEN SorryNoInfo
    ELSE IF config.llm THEN llm_generate_simple_answer(query, results, config, reply)
    ELSE rule_generate_simple_answer(results)

\* lines 297-312
extract_key_content(results) ==
    IF results = <<>> THEN NotFoundText
    ELSE LET top == Take(results, 2)
             contents == NonEmpty([i \in 1..Len(top) |->
                            Strip(SliceChars(top[i].content, 200))])
         IN  IF contents # <<>> THEN JoinWith(contents, <<W("fenhao")>>)
             ELSE NotFoundText

\* the concatenation of a list of lists
RECURSIVE Flatten(_)
Flatten(lists) ==
    IF lists = <<>> THEN <<>> ELSE Head(lists) \o Flatten(Tail(lists))

\* a lookup decomposition.sub_queries[query_idx] raises for one of the
\* entries that have sub-results
LookupRaises(entries, decomposition, sub_results) ==
    \E i \in 1..Len(entries) :
        /\ entries[i] \in DOMAIN sub_results
        /\ \/ entries[i] >= Len(decomposition.sub_queries)
           \/ IndexRaises(decomposition.sub_queries, entries[i])

\* the plan entries below len(sub_queries)
BelowLen(plan, decomposition) ==
    SelectSeq(plan, LAMBDA x : x < Len(decomposition.sub_queries))

\* lines 234-259
synthesize_comparative_results(decomposition, sub_results) ==
    LET plan == decomposition.execution_plan
        first == SubSeq(plan, 1, Len(plan) - 1)
        PartOf(query_idx) ==
            IF query_idx \in DOMAIN sub_results /\ sub_results[query_idx] # <<>>
            THEN <<<<W("guanyu")>> \o ItemAt(decomposition.sub_queries, query_idx).intent
                    \o <<W("maohao")>> \o extract_key_content(sub_results[query_idx])>>
            ELSE <<>>
        last == IF plan # <<>> /\ plan[Len(plan)] \in DOMAIN sub_results
                   /\ sub_results[plan[Len(plan)]] # <<>>
                THEN <<<<W("bijiao-fenxi-maohao")>>
                        \o extract_key_content(sub_results[plan[Len(plan)]])>>
                ELSE <<>>
    IN  IF LookupRaises(first, decomposition, sub_results)
        THEN [raised |-> TRUE, parts |-> <<>>]
        ELSE [raised |-> FALSE,
              parts |-> Flatten([i \in 1..Len(first) |-> PartOf(first[i])]) \o last]

\* lines 261-278
synthesize_multi_aspect_results(decomposition, sub_results) ==
    LET plan == decomposition.execution_plan
        InRange(query_idx) == query_idx < Len(decomposition.sub_queries)
        PartOf(query_idx) ==
            IF query_idx \in DOMAIN sub_results /\ InRange(query_idx)
               /\ sub_results[query_idx] # <<>>
            THEN <<ItemAt(decomposition.sub_queries, query_idx).intent
                    \o <<W("maohao")>> \o extract_key_content(sub_results[query_idx])>>
            ELSE <<>>
    IN  IF LookupRaises(BelowLen(plan, decomposition), decomposition, sub_results)
        THEN [raised |-> TRUE, parts |-> <<>>]
        ELSE [raised |-> FALSE, parts |-> Flatten([i \in 1..Len(plan) |-> PartOf(plan[i])])]

\* lines 280-295
synthesize_general_results(decomposition, sub_results) ==
    LET PartOf(query_idx) ==
            IF query_idx \in DOMAIN sub_results /\ sub_results[query_idx] # <<>>
            THEN <<extract_key_content(sub_results[query_idx])>>
            ELSE <<>>
    IN  [raised |-> FALSE,
         parts |-> Flatten([i \in 1..Len(decomposition.execution_plan) |->
                               PartOf(decomposition.execution_plan[i])])]

\* what a synthesis gives: an answer, or the exception it raises
Answered(answer) == [raised |-> FALSE, answer |-> answer]

AnswerRaised == [raised |-> TRUE, answer |-> <<>>]

\* lines 199-232
rule_based_synthesize(decomposition, sub_results) ==
    LET r == IF decomposition.intent.intent_type = "comparative"
             THEN synthesize_comparative_results(decomposition, sub_results)
             ELSE IF decomposition.intent.intent_type = "multi_aspect"
             THEN synthesize_multi_aspect_results(decomposition, sub_results)
             ELSE synthesize_general_results(decomposition, sub_results)
    IN  IF r.raised THEN AnswerRaised
        ELSE IF r.parts # <<>> THEN Answered(JoinWith(r.parts, <<W("para-break")>>))
        ELSE Answered(SorryNoInfoForQuestion)

\* lines 90-130: whatever is raised while the prompt is built or the LLM is
\* asked leads to the rule-based synthesis
llm_synthesize(original_query, decomposition, sub_results, config, reply) ==
    LET prompt_raises ==
            LookupRaises(BelowLen(decomposition.execution_plan, decomposition),
                         decomposition, sub_results)
    IN  IF ~prompt_raises /\ reply.kind = "text"
        THEN Answered(post_process_answer(Strip(reply.content), config))
        ELSE rule_based_synthesize(decomposition, sub_results)

\* list(sub_results.values())[0] of a dict with one key
OnlyValue(sub_results) == sub_results[CHOOSE k \in DOMAIN sub_results : TRUE]

\* lines 57-88
synthesize_results(original_query, decomposition, sub_results, config, reply) ==
    IF DOMAIN sub_results = {} THEN Answered(SorryNoInfo)
    ELSE IF Cardinality(DOMAIN sub_results) = 1
    THEN Answered(generate_simple_answer(original_query, OnlyValue(sub_results), config, reply))
    ELSE IF config.llm
    THEN llm_synthesize(original_query, decomposition, sub_results, config, reply)
    ELSE rule_based_synthesize(decomposition, sub_results)

(***************************************************************************)
(* Planner inputs: every list of at most MaxN sub-queries whose depends_on *)
(* lists hold at most MaxEdges entries in total, each entry an index in    *)
(* range, the negative index -1 or the too-large index n.                  *)
(***************************************************************************)
DepVals(n) == -1..n

RECURSIVE DepLists(_, _, _)
DepLists(k, n, budget) ==
    IF k = 0 THEN {<<>>}
    ELSE UNION {{Append(rest, d) : rest \in DepLists(k - 1, n, budget - Len(d))}
                : d \in SeqsUpTo(DepVals(n), budget)}

PlannerInputs(n) ==
    {[i \in 1..n |-> SubQuery(<<W("q")>>, <<W("i")>>, JNum(prio[i]), IntList(deps[i]), FALSE)]
       : prio \in [1..n -> 1..MaxPrio], deps \in DepLists(n, n, MaxEdges)}

PlanStart ==
    /\ pl.pc = "start"
    /\ pl' = PlanStartStep(pl)
    /\ UNCHANGED <<dec_vars, proc_vars, rank_vars>>

PlanLoop ==
    /\ pl.pc = "loop"
    /\ pl' = PlanLoopStep(pl)
    /\ UNCHANGED <<dec_vars, proc_vars, rank_vars>>

DfsEnter ==
    /\ pl.pc = "dfs"
    /\ ~Top(pl.stack).entered
    /\ pl' = DfsEnterStep(pl)
    /\ UNCHANGED <<dec_vars, proc_vars, rank_vars>>

DfsIterate ==
    /\ pl.pc = "dfs"
    /\ Top(pl.stack).entered
    /\ pl' = DfsIterateStep(pl)
    /\ UNCHANGED <<dec_vars, proc_vars, rank_vars>>

(***************************************************************************)
(* IntelligentQueryProcessor: the result dictionaries and the locals of a  *)
(* call.  A call is made by a caller of process_query ("processor") or by  *)
(* a caller of execute_decomposed_query itself ("executor").               *)
(***************************************************************************)
CallIds == {1, 2}

Result(query_type, answer, sub_queries, execution_plan, retrieved_chunks) ==
    [query_type |-> query_type, answer |-> answer, sub_queries |-> sub_queries,
     execution_plan |-> execution_plan, retrieved_chunks |-> retrieved_chunks]

NoResult == Result("none", <<>>, <<>>, <<>>, <<>>)

\* sub_results.get(i, [])
ResultsOf(sub_results, i) == IF i \in DOMAIN sub_results THEN sub_results[i] ELSE <<>>

\* lines 168-196
ComplexResult(answer, decomposition, sub_results, all_results) ==
    Result("complex", answer,
           [i \in 1..Len(decomposition.sub_queries) |->
               [query |-> decomposition.sub_queries[i].query,
                results_count |-> Len(ResultsOf(sub_results, i - 1))]],
           decomposition.execution_plan, all_results)

\* lines 217-231
SimpleResult(answer, query, results) ==
    Result("simple", answer, <<[query |-> query, results_count |-> Len(results)]>>,
           <<0>>, results)

\* lines 121-131
ErrorResult == Result("error", <<W("chuli-guocheng-zhong-chuxian-cuowu")>>, <<>>, <<>>, <<>>)

\* lines 245-259
simple_result_combination(results) ==
    LET top == Take(results, 5)
        cut == [i \in 1..Len(top) |-> Strip(SliceChars(top[i].content, 300))]
        \* a content is appended unless it is empty or was appended before
        first == [i \in 1..Len(cut) |-> \A j \in 1..(i - 1) : cut[j] # cut[i]]
        kept == {i \in 1..Len(cut) : cut[i] # <<>> /\ first[i]}
        Pick[i \in 0..Len(cut)] ==
            IF i = 0 THEN <<>>
            ELSE IF i \in kept THEN Append(Pick[i - 1], cut[i]) ELSE Pick[i - 1]
    IN  IF results = <<>> THEN SorryNoInfo
        ELSE IF Pick[Len(cut)] # <<>> THEN JoinWith(Pick[Len(cut)], <<W("para-break")>>)
        ELSE SorryNoInfo

\* variant of the test of line 107 that takes any non-empty decomposition
process_query_route_AnySubQuery(config, decomposition) ==
    IF ~config.enable_decomposition THEN "simple"
    ELSE IF decomposition.raised THEN "except"
    ELSE IF decomposition.intent.requires_decomposition
            /\ Len(decomposition.sub_queries) > 0
    THEN "exec_begin"
    ELSE "simple"

\* lines 102-112: where process_query goes after the decomposition
process_query_route(config, decomposition) ==
    IF ~config.enable_decomposition THEN "simple"
    ELSE IF decomposition.raised THEN "except"
    ELSE IF decomposition.intent.requires_decomposition
            /\ Len(decomposition.sub_queries) > 1
    THEN "exec_begin"
    ELSE "simple"

\* processor lines 160-164 and synthesizer lines 76-88: what makes the answer
\* of a multi-step call.  "combination" is _simple_result_combination,
\* "direct" the _generate_simple_answer of line 83, "prompt" is _llm_synthesize,
\* whose first statement builds the synthesis prompt (line 109), "rules" is
\* _rule_based_synthesize.
synthesis_path(sub_results, config) ==
    IF ~(config.enable_synthesis /\ Cardinality(DOMAIN sub_results) > 1) THEN "combination"
    ELSE IF DOMAIN sub_results = {} THEN "none"
    ELSE IF Cardinality(DOMAIN sub_results) = 1 THEN "direct"
    ELSE IF config.llm THEN "prompt"
    ELSE "rules"

Call(pc, caller, query, intent_reply, decomp_reply, decomposition) ==
    [pc |-> pc, caller |-> caller, query |-> query,
     intent_reply |-> intent_reply, decomp_reply |-> decomp_reply,
     decomposition |-> decomposition, step |-> 0, in_try |-> TRUE,
     all_results |-> <<>>, synthesis |-> "none", result |-> NoResult]

\* one retrieve() call: phase "step" for a plan step, "single" for the
\* single-pass retrieval of _process_simple_query
Retrieval(phase, query_idx, query, outcome) ==
    [phase |-> phase, query_idx |-> query_idx, query |-> query,
     raised |-> outcome.raised, results |-> outcome.results]

RetrieveRaised == [raised |-> TRUE, results |-> <<>>]

Retrieved(results) == [raised |-> FALSE, results |-> results]

\* variant of lines 68-85 that records the failed step with no results
retrieve_step_RecordFailure(ctx, acc, sub_query, query_idx, step, outcome) ==
    [execution_context |->
         StoreContext(ctx, query_idx, ContextEntry(sub_query.query, outcome.results, step)),
     accumulated_results |-> acc \o outcome.results]

\* lines 68-85: the executor's attributes after the retrieval of one step
retrieve_step(ctx, acc, sub_query, query_idx, step, outcome) ==
    IF outcome.raised
    THEN [execution_context |-> ctx, accumulated_results |-> acc]
    ELSE [execution_context |->
              StoreContext(ctx, query_idx, ContextEntry(sub_query.query, outcome.results, step)),
          accumulated_results |-> acc \o outcome.results]

\* "for dep_idx in sub_query.depends_on" on a value that is not a list
ContextRaises(sub_query) ==
    /\ sub_query.context_needed
    /\ ~Falsy(sub_query.depends_on)
    /\ sub_query.depends_on.kind # "list"

(***************************************************************************)
(* retrieval/hybrid_retriever.py and retrieval/reranker.py.  A retrieved   *)
(* chunk is a dict; the model keeps the keys the two functions read or     *)
(* write.  score is in tenths, priority_score in tenths (5 is the default  *)
(* 0.5 of a chunk without the key), combined_score in ten-thousandths,     *)
(* the four sub-scores in thousandths and rerank_score in                  *)
(* ten-thousandths; quotients are cut to the unit.                         *)
(***************************************************************************)
RetrievedChunk(retrieval_method, content, score, priority_score, content_category, chunk_type, page_num, chunk_index) ==
    [retrieval_method |-> retrieval_method, content |-> content, score |-> score,
     priority_score |-> priority_score, content_category |-> content_category,
     chunk_type |-> chunk_type, page_num |-> page_num, chunk_index |-> chunk_index,
     combined_score |-> JMissing, rerank_score |-> JMissing]

\* hybrid_retriever.py lines 261-272: retrieval_score * (0.7 + 0.3 * priority_score)
combined_score(result) ==
    LET priority == IF result.content_category = "references"
                    THEN 3 * result.priority_score
                    ELSE 10 * result.priority_score
    IN  result.score * (700 + 3 * priority)

\* hash(content): equal contents have equal hashes; two different contents
\* are taken to have different hashes
content_hash(content) == content

\* results.sort(key=combined_score, reverse=True): equal keys keep their order
RECURSIVE InsertByCombined(_, _)
RECURSIVE InsertByCombinedTiesFirst(_, _)
InsertByCombinedTiesFirst(sorted, result) ==
    IF sorted = <<>> THEN <<result>>
    ELSE IF Head(sorted).combined_score > result.combined_score
         THEN <<Head(sorted)>> \o InsertByCombinedTiesFirst(Tail(sorted), result)
         ELSE <<result>> \o sorted

InsertByCombined(sorted, result) ==
    IF sorted = <<>> THEN <<result>>
    ELSE IF Head(sorted).combined_score >= result.combined_score
         THEN <<Head(sorted)>> \o InsertByCombined(Tail(sorted), result)
         ELSE <<result>> \o sorted

RECURSIVE SortByCombined(_)
SortByCombined(results) ==
    IF results = <<>> THEN <<>>
    ELSE InsertByCombined(SortByCombined(SubSeq(results, 1, Len(results) - 1)),
                          results[Len(results)])

\* hybrid_retriever.py lines 277-283: the first chunk of every content, in order
RECURSIVE UniqueByContent(_, _)
UniqueByContent(results, seen_content) ==
    IF results = <<>> THEN <<>>
    ELSE IF content_hash(Head(results).content) \in seen_content
         THEN UniqueByContent(Tail(results), seen_content)
         ELSE <<Head(results)>>
              \o UniqueByContent(Tail(results),
                                 seen_content \cup {content_hash(Head(results).content)})

\* lines 261-272: every chunk gets its combined_score
WithCombinedScores(results) ==
    [i \in 1..Len(results) |-> [results[i] EXCEPT !.combined_score = combined_score(results[i])]]

merge_results_DedupBeforeSort(results) ==
    SortByCombined(UniqueByContent(WithCombinedScores(results), {}))

\* HybridRetriever._merge_results, lines 246-285
merge_results(results) ==
    UniqueByContent(SortByCombined(WithCombinedScores(results)), {})

\* Reranker._extract_keywords, lines 157-179, on lower-case Latin words
\* separated by blanks: the words longer than one character (none of them
\* is a stop word, and there is no run of Chinese characters)
extract_keywords(text) == {word \in Range(split(text)) : StrLen(word) > 1}

\* str.find(keyword): characters before the first occurrence, -1 if none
RECURSIVE FindWord(_, _, _)
FindWord(content, keyword, before) ==
    IF content = <<>> THEN -1
    ELSE IF <<Head(content)>> = keyword THEN before
         ELSE FindWord(Tail(content), keyword, before + Head(content).n)

\* str.count(keyword)
CountWord(content, keyword) ==
    Cardinality({i \in 1..Len(content) : <<content[i]>> = keyword})

RECURSIVE SumOver(_, _)
SumOver(f, S) ==
    IF S = {} THEN 0
    ELSE LET x == CHOOSE y \in S : TRUE IN f[x] + SumOver(f, S \ {x})

\* lines 181-196
calculate_keyword_position_bonus(keywords, content) ==
    IF keywords = {} \/ content = <<>> THEN 0
    ELSE LET position_ratio ==
                 [keyword \in keywords |->
                     IF FindWord(content, keyword, 0) = -1 THEN 0
                     ELSE 1000 - (1000 * FindWord(content, keyword, 0)) \div StrLen(content)]
         IN  SumOver(position_ratio, keywords) \div Cardinality(keywords)

\* math.log(1 + frequency) in thousandths
LogOnePlus(frequency) ==
    CASE frequency = 0 -> 0
      [] frequency = 1 -> 693
      [] frequency = 2 -> 1099
      [] OTHER -> 1386

\* lines 198-211
calculate_keyword_frequency_bonus(keywords, content) ==
    IF keywords = {} \/ content = <<>> THEN 0
    ELSE LET logs == [keyword \in keywords |-> LogOnePlus(CountWord(content, keyword))]
         IN  Min(SumOver(logs, keywords) \div Cardinality(keywords), 1000)

\* Reranker._calculate_keyword_scores, lines 132-155, for one chunk
keyword_score(query, result) ==
    LET query_keywords == extract_keywords(query)
        content_keywords == extract_keywords(result.content)
        score == IF query_keywords = {} THEN 0
                 ELSE (1000 * Cardinality(query_keywords \cap content_keywords))
                          \div Cardinality(query_keywords)
        position_bonus == calculate_keyword_position_bonus(query_keywords, result.content)
        frequency_bonus == calculate_keyword_frequency_bonus(query_keywords, result.content)
    IN  Min(score + (position_bonus * 2) \div 10 + frequency_bonus \div 10, 1000)

\* what the embedding model gives for a query and a content: some fixed
\* function of the two texts
cos_sim(query, content) ==
    IF extract_keywords(query) \cap extract_keywords(content) # {} THEN 800 ELSE 100

\* Reranker._calculate_semantic_scores, lines 109-130, for one chunk;
\* rerank_model is "none" without a model, "ok" when the model encodes and
\* "raise" when encoding raises
semantic_score(query, result, rerank_model) ==
    IF rerank_model = "ok" THEN cos_sim(query, result.content) ELSE 100 * result.score

\* Reranker._calculate_content_type_scores, lines 213-222, for one chunk
content_type_score(result) ==
    CASE result.chunk_type = "text" -> 1000
      [] result.chunk_type = "table" -> 900
      [] result.chunk_type = "image" -> 800
      [] OTHER -> 500

\* 1.0 / (1 + math.log(page_num)) in thousandths, pages 1 to 3
PageScore(page_num) ==
    CASE page_num = 1 -> 1000
      [] page_num = 2 -> 591
      [] OTHER -> 477

\* Reranker._calculate_position_scores, lines 224-240, for one chunk
position_score(result) ==
    (PageScore(result.page_num) + 10000 \div (10 + result.chunk_index)) \div 2

\* lines 89-95: the weighted sum
rerank_score(query, result, rerank_model) ==
    4 * semantic_score(query, result, rerank_model) + 3 * keyword_score(query, result)
        + 2 * content_type_score(result) + position_score(result)

\* results.sort(key=rerank_score, reverse=True): equal keys keep their order
RECURSIVE InsertByRerank(_, _)
RECURSIVE InsertByRerankTiesFirst(_, _)
InsertByRerankTiesFirst(sorted, result) ==
    IF sorted = <<>> THEN <<result>>
    ELSE IF Head(sorted).rerank_score > result.rerank_score
         THEN <<Head(sorted)>> \o InsertByRerankTiesFirst(Tail(sorted), result)
         ELSE <<result>> \o sorted

InsertByRerank(sorted, result) ==
    IF sorted = <<>> THEN <<result>>
    ELSE IF Head(sorted).rerank_score >= result.rerank_score
         THEN <<Head(sorted)>> \o InsertByRerank(Tail(sorted), result)
         ELSE <<result>> \o sorted

RECURSIVE SortByRerank(_)
SortByRerank(results) ==
    IF results = <<>> THEN <<>>
    ELSE InsertByRerank(SortByRerank(SubSeq(results, 1, Len(results) - 1)),
                        results[Len(results)])

rerank_KeepOrder(query, results, rerank_model) ==
    [i \in 1..Len(results) |->
        [results[i] EXCEPT !.rerank_score = rerank_score(query, results[i], rerank_model)]]

\* Reranker.rerank, lines 66-107
rerank(query, results, rerank_model) ==
    IF results = <<>> THEN results
    ELSE SortByRerank(
             [i \in 1..Len(results) |->
                 [results[i] EXCEPT
                     !.rerank_score = rerank_score(query, results[i], rerank_model)]])

(***************************************************************************)
(* HybridRetriever.retrieve (hybrid_retriever.py lines 125-172).  The      *)
(* configuration is the dictionary handed to the constructor, or           *)
(* config.RETRIEVAL_CONFIG; a key it lacks is JMissing.  What the BM25 and  *)
(* the vector search return are inputs.                                    *)
(***************************************************************************)
RetrievalConfig(top_k, rerank_top_k) == [top_k |-> top_k, rerank_top_k |-> rerank_top_k]

\* config.py lines 62-71
RETRIEVAL_CONFIG == RetrievalConfig(JNum(10), JNum(5))

\* config.get(key, default) for a key that holds a number
NumOr(val, default) == IF val.kind = "missing" THEN default ELSE val.v

\* s[:k]
SliceTo(s, k) ==
    IF k >= 0 THEN Take(s, k) ELSE SubSeq(s, 1, Max(0, Len(s) + k))

\* variant that hands every merged candidate to the reranker
retrieve_RerankAll(query, top_k, enable_rerank, config, bm25_results, vector_results, rerank_model) ==
    LET k              == IF top_k.kind = "null" THEN NumOr(config.top_k, 10) ELSE top_k.v
        all_results    == bm25_results \o vector_results
        merged_results == merge_results(all_results)
        reranked       == IF enable_rerank /\ merged_results # <<>>
                          THEN rerank(query, merged_results, rerank_model)
                          ELSE merged_results
    IN  SliceTo(reranked, k)

retrieve(query, top_k, enable_rerank, config, bm25_results, vector_results, rerank_model) ==
    LET k              == IF top_k.kind = "null" THEN NumOr(config.top_k, 10) ELSE top_k.v
        all_results    == bm25_results \o vector_results
        merged_results == merge_results(all_results)
        reranked       == IF enable_rerank /\ merged_results # <<>>
                          THEN LET rerank_top_k == NumOr(config.rerank_top_k,
                                                         Min(k * 2, Len(merged_results)))
                               IN  rerank(query, SliceTo(merged_results, rerank_top_k),
                                          rerank_model)
                          ELSE merged_results
    IN  SliceTo(reranked, k)

\* a retrieve call: its arguments, what the two searches gave it, and what
\* it returned
RetrieveCall(pc, query, top_k, enable_rerank, config, bm25_results, vector_results, rerank_model) ==
    [pc |-> pc, query |-> query, top_k |-> top_k, enable_rerank |-> enable_rerank,
     config |-> config, bm25_results |-> bm25_results, vector_results |-> vector_results,
     rerank_model |-> rerank_model, final_results |-> <<>>]

\* a candidate list, the function applied to it, and what each application
\* returned
Ranking(op, results, rerank_model, query) ==
    [op |-> op, query |-> query, rerank_model |-> rerank_model,
     input |-> results, outputs |-> <<>>]

(***************************************************************************)
(* Values of the variables a specification does not use.                   *)
(***************************************************************************)
DefaultConfig(llm) ==
    [llm |-> llm, decomposition_threshold |-> 600, max_sub_queries |-> 5,
     enable_decomposition |-> TRUE, enable_synthesis |-> TRUE, fallback_to_simple |-> TRUE,
     max_context_length |-> 1000, enable_result_fusion |-> TRUE,
     max_synthesis_length |-> 2000]

NoReply ==
    [call |-> "none", intent |-> IntentReply("none", NoIntentData),
     decomp |-> DecompReply("none", "missing", <<>>)]

NoIntent == QueryIntent("", 0, JList(<<>>), "", FALSE, [text |-> "", tenths |-> 0])

PlanIdle == pl = [PlanInit(<<>>) EXCEPT !.pc = "idle"]

DecIdle ==
    /\ question = <<>>
    /\ settings = DefaultConfig(FALSE)
    /\ llm_reply = NoReply
    /\ query_intent = NoIntent
    /\ decomp_result = DecompositionRaised(<<>>, NoIntent)
    /\ dpc = "idle"

IdleCall ==
    Call("idle", "none", <<>>, NoReply.intent, NoReply.decomp,
         DecompositionRaised(<<>>, NoIntent))

NoRetrieveCall ==
    RetrieveCall("idle", <<>>, JNull, FALSE, RETRIEVAL_CONFIG, <<>>, <<>>, "none")

RankIdle ==
    /\ rk = Ranking("idle", <<>>, "none", <<>>)
    /\ hr = NoRetrieveCall

ProcIdle ==
    /\ execution_context = <<>>
    /\ accumulated_results = <<>>
    /\ calls = [c \in CallIds |-> IdleCall]
    /\ retriever_log = [c \in CallIds |-> <<>>]
    /\ RankIdle

InitPlan ==
    /\ \E n \in 0..MaxN : \E sqs \in PlannerInputs(n) : pl = PlanInit(sqs)
    /\ DecIdle
    /\ ProcIdle

NextPlan == PlanStart \/ PlanLoop \/ DfsEnter \/ DfsIterate

SpecPlan == InitPlan /\ [][NextPlan]_vars

LiveSpecPlan == SpecPlan /\ WF_vars(NextPlan)

(***************************************************************************)
(* analyze_and_decompose as a process: the intent analysis with the first  *)
(* chat call, then either the early return or the decomposition with the   *)
(* second chat call and the planning.                                      *)
(***************************************************************************)
QuestionTokens == {W("bijiao"), W("fenxi"), W(" "), W("pad150")}

\* the question "比较A和B的优缺点"
CompareAB == <<W("bijiao"), W("A"), W("he"), W("B"), W("de-youquedian")>>

\* a long question with the two keywords "分析" and "评估": the rules score it 6.0
AnalyseEvaluate == <<W("pad150"), W("fenxi"), W("pinggu")>>

Questions == SeqsUpTo(QuestionTokens, MaxQueryTokens) \cup {CompareAB, AnalyseEvaluate}

\* the default configuration with and without an LLM, and one without an LLM
\* whose decomposition_threshold is 4.0
DecompConfigs ==
    {DefaultConfig(llm) : llm \in BOOLEAN}
    \cup {[DefaultConfig(FALSE) EXCEPT !.decomposition_threshold = 400]}

\* the key concepts an LLM may name
LlmConcepts == <<<<W("w3")>>, <<W("pad150")>>>>

IntentReplies ==
    {IntentReply(k, NoIntentData) : k \in ReplyFailureKinds}
    \cup {IntentReply("json", IntentData(it, cs, kc, "", rd, "llm")) :
            it \in {"", "comparative"},
            cs \in {JMissing, JNum(200), JNum(800), JNum(1200), JStr},
            kc \in {JMissing, JList(LlmConcepts), JNull},
            rd \in {"", "true", "false"}}

DecompItems ==
    {DecompItem(FALSE, <<>>, <<>>, JMissing, JMissing, FALSE)}
    \cup {DecompItem(TRUE, <<W("llm-q")>>, <<W("llm-i")>>, pr, dep, FALSE) :
            pr \in {JNum(1), JNull},
            dep \in {JMissing, IntList(<<1>>), JList(<<JStr>>)}}

DecompReplies ==
    {DecompReply(k, "missing", <<>>) : k \in ReplyFailureKinds}
    \cup {DecompReply("json", k, <<>>) : k \in {"missing", "null"}}
    \cup {DecompReply("json", "list", items) : items \in SeqsUpTo(DecompItems, MaxReplyItems)}

InitDecomp ==
    /\ PlanIdle
    /\ ProcIdle
    /\ question \in Questions
    /\ settings \in DecompConfigs
    /\ llm_reply = NoReply
    /\ query_intent = NoIntent
    /\ decomp_result = DecompositionRaised(<<>>, NoIntent)
    /\ dpc = "intent"

\* line 68: intent = self._analyze_query_intent(query)
AnalyzeIntent ==
    /\ dpc = "intent"
    /\ \E r \in IF settings.llm THEN IntentReplies ELSE {NoReply.intent} :
          /\ llm_reply' = IF settings.llm THEN [NoReply EXCEPT !.call = "intent", !.intent = r]
                          ELSE NoReply
          /\ query_intent' = analyze_query_intent(question, settings, r)
    /\ dpc' = "decompose"
    /\ UNCHANGED <<rank_vars, proc_vars, pl, question, settings, decomp_result>>

\* lines 71-78: the query needs no decomposition
ReturnUndecomposed ==
    /\ dpc = "decompose"
    /\ ~query_intent.requires_decomposition
    /\ decomp_result' = decompose_with_intent(question, query_intent, settings, NoReply.decomp)
    /\ dpc' = "done"
    /\ UNCHANGED <<rank_vars, proc_vars, pl, question, settings, llm_reply, query_intent>>

\* the chat call of _decompose_query is reached
ChatReached == settings.llm /\ query_intent.key_concepts.kind = "list"

\* lines 81-94: decomposition and planning
DecomposeAndPlan ==
    /\ dpc = "decompose"
    /\ query_intent.requires_decomposition
    /\ \E r \in IF ChatReached THEN DecompReplies ELSE {NoReply.decomp} :
          /\ llm_reply' = IF ChatReached THEN [NoReply EXCEPT !.call = "decomp", !.decomp = r]
                          ELSE llm_reply
          /\ decomp_result' = decompose_with_intent(question, query_intent, settings, r)
    /\ dpc' = "done"
    /\ UNCHANGED <<rank_vars, proc_vars, pl, question, settings, query_intent>>

NextDecomp == AnalyzeIntent \/ ReturnUndecomposed \/ DecomposeAndPlan

SpecDecomp == InitDecomp /\ [][NextDecomp]_vars

(***************************************************************************)
(* _rule_based_decomposition followed by _generate_execution_plan on their *)
(* own: an intent of every intent type and question type with a list of    *)
(* up to MaxConcepts key concepts.                                         *)
(***************************************************************************)
\* lines 326-339: the rules decompose the question under its intent
RulesDecompose ==
    /\ dpc = "rules"
    /\ LET d == rule_based_decomposition(question, query_intent)
       IN  /\ decomp_result' = IF d.raised THEN DecompositionRaised(question, query_intent)
                                ELSE DecompositionResult(question, query_intent, d.sub_queries, <<>>)
           /\ dpc' = IF d.raised THEN "raised" ELSE "decomposed"
    /\ UNCHANGED <<rank_vars, proc_vars, pl, question, settings, llm_reply, query_intent>>

\* lines 84-94: the plan of the sub-queries the rules gave
RulesPlan ==
    /\ dpc = "decomposed"
    /\ LET p == generate_execution_plan(decomp_result.sub_queries)
       IN  /\ decomp_result' = IF p.pc = "raised" THEN DecompositionRaised(question, query_intent)
                                ELSE [decomp_result EXCEPT !.execution_plan = p.execution_plan]
           /\ dpc' = IF p.pc = "raised" THEN "raised" ELSE "planned"
    /\ UNCHANGED <<rank_vars, proc_vars, pl, question, settings, llm_reply, query_intent>>

RuleConcepts == {<<W("w3")>>, <<W("pad150")>>}

RuleIntents ==
    {QueryIntent(intent_type, 700, JList(concepts), question_type, TRUE, RuleReasoning(700)) :
        intent_type \in {"comparative", "multi_aspect", "complex", "simple"},
        question_type \in {"procedural", "analytical", "comparative", "factual"},
        concepts \in SeqsUpTo(RuleConcepts, MaxConcepts)}

InitRules ==
    /\ PlanIdle
    /\ ProcIdle
    /\ question = <<W("w3"), W(" "), W("pad150")>>
    /\ settings = DefaultConfig(FALSE)
    /\ llm_reply = NoReply
    /\ query_intent \in RuleIntents
    /\ decomp_result = DecompositionRaised(<<>>, NoIntent)
    /\ dpc = "rules"

NextRules == RulesDecompose \/ RulesPlan

SpecRules == InitRules /\ [][NextRules]_vars

(***************************************************************************)
(* The executor and the processor as processes.  The executor's            *)
(* execution_context and accumulated_results are attributes of the one     *)
(* executor object of the processor; everything else is local to a call.   *)
(* A retrieve() call raises or returns a list of chunks.                   *)
(***************************************************************************)
ChunkA == Chunk(<<W("c100a")>>, 5)

ChunkB == Chunk(<<W("c100b")>>, 3)

\* same first 100 characters as ChunkA, better score
ChunkA2 == Chunk(<<W("c100a"), W("s5")>>, 9)

RetrieverOutcomes ==
    {RetrieveRaised, Retrieved(<<>>), Retrieved(<<ChunkA>>), Retrieved(<<ChunkB, ChunkA2>>)}

AnswerReplies ==
    {AnswerReply("raise", <<>>), AnswerReply("text", <<W(" ")>>),
     AnswerReply("text", <<W("llm-answer")>>)}

\* the replies the answering LLM can give, if there is one
AnswerRepliesOf(config) == IF config.llm THEN AnswerReplies ELSE {AnswerReply("none", <<>>)}

SetCall(c, rec) == [calls EXCEPT ![c] = rec]

Log(c, entry) == [retriever_log EXCEPT ![c] = Append(@, entry)]

\* where a raise inside execute_decomposed_query or synthesis goes
RaisedPc(me) == IF me.caller = "processor" THEN "except" ELSE "raised"

\* lines 102-112: analyze_and_decompose and the choice of the path
ProcStart(c) ==
    LET me == calls[c]
        d  == analyze_and_decompose(me.query, settings, me.intent_reply, me.decomp_reply)
    IN  /\ me.pc = "start"
        /\ calls' = SetCall(c, [me EXCEPT !.pc = process_query_route(settings, d),
                                          !.decomposition = d])
        /\ UNCHANGED <<rank_vars, plan_vars, dec_vars, execution_context, accumulated_results,
                       retriever_log>>

\* multi_step_query_executor.py lines 52-53
ExecBegin(c) ==
    LET me == calls[c]
    IN  /\ me.pc = "exec_begin"
        /\ execution_context' = <<>>
        /\ accumulated_results' = <<>>
        /\ calls' = SetCall(c, [me EXCEPT !.pc = "exec_loop", !.step = 1])
        /\ UNCHANGED <<rank_vars, plan_vars, dec_vars, retriever_log>>

\* multi_step_query_executor.py lines 56-85: one iteration of the loop
ExecStep(c) ==
    LET me == calls[c]
        d  == me.decomposition
        query_idx == d.execution_plan[me.step]
        next == [me EXCEPT !.step = @ + 1]
    IN  /\ me.pc = "exec_loop"
        /\ me.step <= Len(d.execution_plan)
        /\ IF query_idx >= Len(d.sub_queries)
           THEN /\ calls' = SetCall(c, next)
                /\ UNCHANGED <<execution_context, accumulated_results, retriever_log>>
           ELSE IF IndexRaises(d.sub_queries, query_idx)
                   \/ ContextRaises(ItemAt(d.sub_queries, query_idx))
           THEN /\ calls' = SetCall(c, [me EXCEPT !.pc = RaisedPc(me)])
                /\ UNCHANGED <<execution_context, accumulated_results, retriever_log>>
           ELSE \E outcome \in RetrieverOutcomes :
                  LET sub_query == ItemAt(d.sub_queries, query_idx)
                      query_with_context ==
                          build_query_context(sub_query, execution_context, settings)
                      after == retrieve_step(execution_context, accumulated_results,
                                             sub_query, query_idx, me.step - 1, outcome)
                  IN  /\ retriever_log' =
                             Log(c, Retrieval("step", query_idx, query_with_context, outcome))
                      /\ execution_context' = after.execution_context
                      /\ accumulated_results' = after.accumulated_results
                      /\ calls' = SetCall(c, next)
        /\ UNCHANGED <<rank_vars, plan_vars, dec_vars>>

\* multi_step_query_executor.py lines 87-91
ExecFinish(c) ==
    LET me == calls[c]
    IN  /\ me.pc = "exec_loop"
        /\ me.step > Len(me.decomposition.execution_plan)
        /\ calls' = SetCall(c, [me EXCEPT
                        !.pc = IF me.caller = "processor" THEN "collect" ELSE "exec_done",
                        !.all_results = fuse_results(accumulated_results, settings)])
        /\ UNCHANGED <<rank_vars, plan_vars, dec_vars, execution_context, accumulated_results,
                       retriever_log>>

\* lines 156-196: the sub-results are read from the executor and combined
ProcCollect(c) ==
    LET me == calls[c]
        sub_results == [k \in DOMAIN execution_context |-> execution_context[k].results]
    IN  /\ me.pc = "collect"
        /\ \E reply \in AnswerRepliesOf(settings) :
              LET s == IF settings.enable_synthesis /\ Cardinality(DOMAIN sub_results) > 1
                       THEN synthesize_results(me.query, me.decomposition, sub_results,
                                               settings, reply)
                       ELSE Answered(simple_result_combination(me.all_results))
              IN  calls' = SetCall(c,
                      IF s.raised
                      THEN [me EXCEPT !.pc = "except",
                                      !.synthesis = synthesis_path(sub_results, settings)]
                      ELSE [me EXCEPT !.pc = "done",
                                      !.synthesis = synthesis_path(sub_results, settings),
                                      !.result = ComplexResult(s.answer, me.decomposition,
                                                               sub_results, me.all_results)])
        /\ UNCHANGED <<rank_vars, plan_vars, dec_vars, execution_context, accumulated_results,
                       retriever_log>>

\* lines 198-231: _process_simple_query, inside or after the try of process_query
ProcSimple(c) ==
    LET me == calls[c]
    IN  /\ me.pc = "simple"
        /\ \E outcome \in RetrieverOutcomes, reply \in AnswerRepliesOf(settings) :
              /\ retriever_log' = Log(c, Retrieval("single", 0, me.query, outcome))
              /\ calls' = SetCall(c,
                     IF outcome.raised
                     THEN [me EXCEPT !.pc = IF me.in_try THEN "except" ELSE "raised"]
                     ELSE [me EXCEPT !.pc = "done",
                                     !.result = SimpleResult(
                                         generate_simple_answer(me.query, outcome.results,
                                                                settings, reply),
                                         me.query, outcome.results)])
        /\ UNCHANGED <<rank_vars, plan_vars, dec_vars, execution_context, accumulated_results>>

\* lines 114-132: the except clause of process_query
ProcExcept(c) ==
    LET me == calls[c]
    IN  /\ me.pc = "except"
        /\ calls' = SetCall(c,
               IF settings.fallback_to_simple
               THEN [me EXCEPT !.pc = "simple", !.in_try = FALSE]
               ELSE [me EXCEPT !.pc = "done", !.result = ErrorResult])
        /\ UNCHANGED <<rank_vars, plan_vars, dec_vars, execution_context, accumulated_results,
                       retriever_log>>

(***************************************************************************)
(* One execute_decomposed_query call on a decomposition the caller built:  *)
(* the first sub-query is independent, a later one may depend on the       *)
(* first; a plan entry is a valid index, the too-large index n, the        *)
(* negative index -1 or the negative index -(n+1).                         *)
(***************************************************************************)
ExecSubQueries(n) ==
    {[i \in 1..n |-> IF i = 1
                     THEN SubQuery(<<W("q"), W("0")>>, <<W("i0")>>, JNum(1), JNull, FALSE)
                     ELSE SubQuery(<<W("q"), W("later")>>, <<W("i1")>>, JNum(2), dep[i], cn[i])]
       : dep \in [1..n -> {JNull, IntList(<<0>>)}], cn \in [1..n -> BOOLEAN]}

PlanVals(n) == {0 - (n + 1), -1} \cup 0..n

ExecInputs ==
    UNION {{DecompositionResult(<<W("w3")>>, NoIntent, sqs, plan)
             : sqs \in ExecSubQueries(n), plan \in SeqsUpTo(PlanVals(n), MaxPlanLen)}
           : n \in 1..MaxExecN}

SettingsIdle ==
    /\ question = <<>>
    /\ llm_reply = NoReply
    /\ query_intent = NoIntent
    /\ decomp_result = DecompositionRaised(<<>>, NoIntent)
    /\ dpc = "idle"

\* the default configuration, and one whose max_context_length is 150
ExecConfigs == {DefaultConfig(FALSE), [DefaultConfig(FALSE) EXCEPT !.max_context_length = 150]}

InitExec ==
    /\ PlanIdle
    /\ SettingsIdle
    /\ settings \in ExecConfigs
    /\ execution_context = <<>>
    /\ accumulated_results = <<>>
    /\ \E d \in ExecInputs :
          calls = [c \in CallIds |->
                      IF c = 1
                      THEN Call("exec_begin", "executor", d.original_query,
                                NoReply.intent, NoReply.decomp, d)
                      ELSE IdleCall]
    /\ retriever_log = [c \in CallIds |-> <<>>]
    /\ RankIdle

NextExec == \E c \in CallIds : ExecBegin(c) \/ ExecStep(c) \/ ExecFinish(c)

SpecExec == InitExec /\ [][NextExec]_vars

(***************************************************************************)
(* process_query calls.  The question is short or is a long comparison;    *)
(* the LLM, if there is one, answers the two chat calls of the decomposer  *)
(* with one of a few replies.                                              *)
(***************************************************************************)
ProcQuestions ==
    {<<W("w3")>>,
     <<W("pad150"), W(" "), W("w3"), W(" "), W("bijiao"), W("fenxi")>>}

ProcIntentReplies ==
    {IntentReply("raise", NoIntentData),
     IntentReply("json", IntentData("comparative", JNum(800), JList(LlmConcepts), "", "true", "llm")),
     IntentReply("json", IntentData("", JNum(200), JList(LlmConcepts), "", "false", "llm"))}

ReplyItem(name, depends_on, context_needed) ==
    DecompItem(TRUE, <<W("llm-q"), W(name)>>, <<W("llm-i"), W(name)>>, JNum(1),
               depends_on, context_needed)

ProcDecompReplies ==
    {DecompReply("none", "missing", <<>>),
     DecompReply("json", "missing", <<>>),
     DecompReply("json", "list", <<ReplyItem("0", JMissing, FALSE)>>),
     DecompReply("json", "list", <<ReplyItem("0", JMissing, FALSE),
                                   ReplyItem("1", IntList(<<0>>), TRUE)>>),
     DecompReply("json", "list", <<ReplyItem("0", JMissing, FALSE),
                                   ReplyItem("1", JMissing, FALSE),
                                   ReplyItem("2", JMissing, FALSE)>>),
     DecompReply("json", "list", <<ReplyItem("0", JMissing, FALSE),
                                   ReplyItem("1", JList(<<JStr>>), TRUE)>>),
     DecompReply("json", "list", <<ReplyItem("0", IntList(<<-3>>), FALSE),
                                   ReplyItem("1", JMissing, FALSE)>>)}

ProcConfigs ==
    {[DefaultConfig(llm) EXCEPT !.enable_decomposition = ed, !.enable_synthesis = es,
                                !.fallback_to_simple = fs]
       : llm \in BOOLEAN, ed \in BOOLEAN, es \in BOOLEAN, fs \in BOOLEAN}

\* the process_query calls that can be made on a processor with this configuration
ProcCalls(config) ==
    {Call("start", "processor", q, ir, dr, DecompositionRaised(<<>>, NoIntent))
       : q \in ProcQuestions,
         ir \in IF config.llm THEN ProcIntentReplies ELSE {NoReply.intent},
         dr \in IF config.llm THEN ProcDecompReplies ELSE {NoReply.decomp}}

InitProc ==
    /\ PlanIdle
    /\ SettingsIdle
    /\ settings \in ProcConfigs
    /\ execution_context = <<>>
    /\ accumulated_results = <<>>
    /\ \E first \in ProcCalls(settings) :
          calls = [c \in CallIds |-> IF c = 1 THEN first ELSE IdleCall]
    /\ retriever_log = [c \in CallIds |-> <<>>]
    /\ RankIdle

NextProc ==
    \E c \in CallIds :
        \/ ProcStart(c)
        \/ ExecBegin(c)
        \/ ExecStep(c)
        \/ ExecFinish(c)
        \/ ProcCollect(c)
        \/ ProcSimple(c)
        \/ ProcExcept(c)

SpecProc == InitProc /\ [][NextProc]_vars

(***************************************************************************)
(* Two process_query calls on one processor, in any interleaving of their  *)
(* steps.  Both questions are decomposed by the LLM.                       *)
(***************************************************************************)
ConcCalls ==
    {c \in ProcCalls(DefaultConfig(TRUE)) :
        /\ c.query = <<W("w3")>>
        /\ c.intent_reply.kind = "json"
        /\ c.intent_reply.data.requires_decomposition = "true"
        /\ c.decomp_reply.kind = "json"
        /\ Len(c.decomp_reply.items) = 2}

InitConc ==
    /\ PlanIdle
    /\ SettingsIdle
    /\ settings = DefaultConfig(TRUE)
    /\ execution_context = <<>>
    /\ accumulated_results = <<>>
    /\ calls \in [CallIds -> ConcCalls]
    /\ retriever_log = [c \in CallIds |-> <<>>]
    /\ RankIdle

SpecConc == InitConc /\ [][NextProc]_vars

(***************************************************************************)
(* _merge_results, _fuse_results and rerank on their own: a candidate list *)
(* is handed to one of them, and its output is handed to it once more.     *)
(***************************************************************************)
CurrentResults == IF rk.outputs = <<>> THEN rk.input ELSE rk.outputs[Len(rk.outputs)]

ApplyMerge ==
    /\ rk.op = "merge"
    /\ Len(rk.outputs) < 2
    /\ rk' = [rk EXCEPT !.outputs = Append(@, merge_results(CurrentResults))]
    /\ UNCHANGED <<plan_vars, dec_vars, execution_context, accumulated_results,
                   calls, retriever_log, hr>>

ApplyFuse ==
    /\ rk.op = "fuse"
    /\ Len(rk.outputs) < 2
    /\ rk' = [rk EXCEPT !.outputs = Append(@, fuse_results(CurrentResults, settings))]
    /\ UNCHANGED <<plan_vars, dec_vars, execution_context, accumulated_results,
                   calls, retriever_log, hr>>

ApplyRerank ==
    /\ rk.op = "rerank"
    /\ Len(rk.outputs) < 2
    /\ rk' = [rk EXCEPT
                 !.outputs = Append(@, rerank(rk.query, CurrentResults, rk.rerank_model))]
    /\ UNCHANGED <<plan_vars, dec_vars, execution_context, accumulated_results,
                   calls, retriever_log, hr>>

KwA == <<W("kwa")>>
KwB == <<W("kwb")>>
KwBA == <<W("kwb"), W(" "), W("kwa")>>

\* chunks as the two searches return them: a chunk found by both searches
\* with different and with equal scores, another content of equal score, an
\* image, and two contents that agree on their first 100 characters, one of
\* them from a references section
RankChunks ==
    {RetrievedChunk("bm25_text", KwA, 2, 5, "other", "text", 1, 0),
     RetrievedChunk("vector_text", KwA, 4, 5, "other", "text", 1, 0),
     RetrievedChunk("bm25_text", KwA, 4, 5, "other", "text", 1, 0),
     RetrievedChunk("vector_text", KwB, 4, 5, "other", "text", 1, 0),
     RetrievedChunk("vector_image", KwBA, 2, 0, "other", "image", 3, 2),
     RetrievedChunk("bm25_text", <<W("c100a")>>, 2, 5, "other", "table", 1, 0),
     RetrievedChunk("vector_text", <<W("c100a"), W("s5")>>, 4, 10, "references", "text", 2, 1)}

CandidateLists == UNION {[1..n -> RankChunks] : n \in 0..MaxCandidates}

\* the function a list is handed to, and for rerank whether there is an
\* embedding model and whether it raises
RankOps ==
    {<<"merge", "none", <<>>>>, <<"fuse", "none", <<>>>>, <<"rerank", "none", KwA>>,
     <<"rerank", "ok", KwA>>, <<"rerank", "raise", KwA>>}

InitRank ==
    /\ PlanIdle
    /\ DecIdle
    /\ execution_context = <<>>
    /\ accumulated_results = <<>>
    /\ calls = [c \in CallIds |-> IdleCall]
    /\ retriever_log = [c \in CallIds |-> <<>>]
    /\ \E results \in CandidateLists, op \in RankOps :
          rk = Ranking(op[1], results, op[2], op[3])
    /\ hr = NoRetrieveCall

NextRank == ApplyMerge \/ ApplyFuse \/ ApplyRerank

SpecRank == InitRank /\ [][NextRank]_vars

(***************************************************************************)
(* One HybridRetriever.retrieve call: the retriever's configuration, the   *)
(* top_k argument (None or a number), enable_rerank, and what the BM25 and  *)
(* the vector search returned.                                             *)
(***************************************************************************)
Retrieve ==
    /\ hr.pc = "called"
    /\ hr' = [hr EXCEPT
                 !.final_results = retrieve(hr.query, hr.top_k, hr.enable_rerank, hr.config,
                                            hr.bm25_results, hr.vector_results,
                                            hr.rerank_model),
                 !.pc = "returned"]
    /\ UNCHANGED <<plan_vars, dec_vars, proc_vars, rk>>

Bm25Chunks == {r \in RankChunks : r.retrieval_method = "bm25_text"}

\* a sixth content, so that more contents than the shipped rerank_top_k exist
ChunkKwBS5 == RetrievedChunk("vector_text", <<W("kwb"), W("s5")>>, 3, 5, "other", "text", 2, 0)

VectorChunks == {r \in RankChunks : r.retrieval_method # "bm25_text"} \cup {ChunkKwBS5}

Bm25Lists == UNION {[1..n -> Bm25Chunks] : n \in 0..MaxCandidates}

VectorLists == UNION {[1..n -> VectorChunks] : n \in 0..MaxVectorHits}

\* six hits of six contents: two from BM25, four from the vector search
SixHits ==
    <<<<RetrievedChunk("bm25_text", KwA, 2, 5, "other", "text", 1, 0),
        RetrievedChunk("bm25_text", <<W("c100a")>>, 2, 5, "other", "table", 1, 0)>>,
      <<RetrievedChunk("vector_text", KwB, 4, 5, "other", "text", 1, 0),
        RetrievedChunk("vector_image", KwBA, 2, 0, "other", "image", 3, 2),
        RetrievedChunk("vector_text", <<W("c100a"), W("s5")>>, 4, 10, "references", "text", 2, 1),
        ChunkKwBS5>>>>

RetrievalConfigs ==
    {RETRIEVAL_CONFIG, RetrievalConfig(JNum(3), JNum(2)), RetrievalConfig(JMissing, JNum(3)),
     RetrievalConfig(JNum(2), JMissing)}

TopKArguments == {JNull, JNum(1), JNum(3)}

InitRetrieve ==
    /\ PlanIdle
    /\ DecIdle
    /\ execution_context = <<>>
    /\ accumulated_results = <<>>
    /\ calls = [c \in CallIds |-> IdleCall]
    /\ retriever_log = [c \in CallIds |-> <<>>]
    /\ rk = Ranking("idle", <<>>, "none", <<>>)
    /\ \E config \in RetrievalConfigs, top_k \in TopKArguments, enable_rerank \in BOOLEAN :
          \/ \E bm25_results \in Bm25Lists, vector_results \in VectorLists :
                hr = RetrieveCall("called", KwA, top_k, enable_rerank, config,
                                  bm25_results, vector_results, "ok")
          \/ hr = RetrieveCall("called", KwA, top_k, enable_rerank, config,
                               SixHits[1], SixHits[2], "none")

NextRetrieve == Retrieve

SpecRetrieve == InitRetrieve /\ [][NextRetrieve]_vars

(***************************************************************************)
(* Properties of the execution planner.                                    *)
(***************************************************************************)
ValidIndices(sqs) == 0..(Len(sqs) - 1)

\* i depends on j, with j a valid index
DependsOn(sqs, i, j) ==
    j \in ValidIndices(sqs) /\ JNum(j) \in Range(dependency_graph(sqs, i).items)

\* nodes reachable from i over at least one valid dependency edge
RECURSIVE ReachFrom(_, _, _)
ReachFrom(sqs, frontier, k) ==
    LET step == {j \in ValidIndices(sqs) : \E i \in frontier : DependsOn(sqs, i, j)}
    IN  IF k = 0 THEN {} ELSE step \cup ReachFrom(sqs, step, k - 1)

OnCycle(sqs, i) == i \in ReachFrom(sqs, {i}, Len(sqs))

Acyclic(sqs) == \A i \in ValidIndices(sqs) : ~OnCycle(sqs, i)

\* 0-based position of the first occurrence of x in the plan
PositionIn(plan, x) == CHOOSE p \in 1..Len(plan) : plan[p] = x /\ \A q \in 1..(p - 1) : plan[q] # x

IsPermutationOfIndices(plan, n) ==
    /\ Len(plan) = n
    /\ \A i \in 0..(n - 1) : Count(plan, i) = 1

\* C1: for every list of n sub-queries, whatever the priorities and the
\* depends_on lists (empty, out of range, negative, self-referencing,
\* cyclic), the returned plan contains each index 0..n-1 exactly once and
\* nothing else.
PlanIsPermutation ==
    pl.pc = "done" => IsPermutationOfIndices(pl.execution_plan, Len(pl.sub_queries))

\* C2: when the dependency graph is acyclic, every dependency j in 0..n-1 of
\* a sub-query i comes before i in the returned plan, whatever the
\* priorities of i and j.
PlanRespectsDependencies ==
    (pl.pc = "done" /\ Acyclic(pl.sub_queries)) =>
        \A i, j \in ValidIndices(pl.sub_queries) :
            DependsOn(pl.sub_queries, i, j) =>
                PositionIn(pl.execution_plan, j) < PositionIn(pl.execution_plan, i)

\* a finished plan of an acyclic graph in which a dependency precedes a
\* dependent sub-query of strictly better (lower) priority
PlanRespectsDependenciesWitness ==
    /\ pl.pc = "done"
    /\ Acyclic(pl.sub_queries)
    /\ \E i, j \in ValidIndices(pl.sub_queries) :
          /\ DependsOn(pl.sub_queries, i, j)
          /\ pl.sub_queries[i + 1].priority.v < pl.sub_queries[j + 1].priority.v
          /\ PositionIn(pl.execution_plan, j) < PositionIn(pl.execution_plan, i)

HasCycle(sqs) == \E i \in ValidIndices(sqs) : OnCycle(sqs, i)

\* C3: when depends_on contains a cycle (mutual or self dependency) the
\* traversal terminates, and every index on a cycle is emitted exactly
\* once.
PlanTerminatesOnCycle ==
    HasCycle(pl.sub_queries) ~>
        (/\ pl.pc = "done"
         /\ \A i \in ValidIndices(pl.sub_queries) :
               OnCycle(pl.sub_queries, i) => Count(pl.execution_plan, i) = 1)

\* a finished plan for a graph with a cycle through two different nodes
\* and a finished plan for a self dependency
PlanTerminatesOnCycleWitness ==
    /\ pl.pc = "done"
    /\ \E i, j \in ValidIndices(pl.sub_queries) :
          /\ i # j
          /\ DependsOn(pl.sub_queries, i, j)
          /\ DependsOn(pl.sub_queries, j, i)
          /\ Count(pl.execution_plan, i) = 1
          /\ Count(pl.execution_plan, j) = 1

(***************************************************************************)
(* Properties of the intent analysis and of analyze_and_decompose.         *)
(***************************************************************************)
IntentAnalysed == dpc \in {"decompose", "done"}

\* the result for a query that is not decomposed: one sub-query, the query
\* itself, without dependencies, and the plan [0]
IsUndecomposed(result, query) ==
    /\ ~result.raised
    /\ Len(result.sub_queries) = 1
    /\ result.sub_queries[1].query = query
    /\ Falsy(result.sub_queries[1].depends_on)
    /\ result.execution_plan = <<0>>

IsIntListValue(val) ==
    val.kind = "list" /\ \A i \in 1..Len(val.items) : val.items[i].kind = "num"

MalformedDecompReply(reply) ==
    \/ reply.kind # "json"
    \/ reply.sq_kind # "list"
    \/ \E i \in 1..Len(reply.items) :
          \/ ~reply.items[i].is_dict
          \/ reply.items[i].priority.kind \notin {"num", "missing"}
          \/ ~(reply.items[i].depends_on.kind = "missing"
                \/ IsIntListValue(reply.items[i].depends_on))

\* C9: analyze_and_decompose never raises because of what the LLM returned
\* for the decomposition; when that reply is unparsable, lacks the expected
\* structure or carries fields of the wrong type, the sub-queries are those
\* of the rule-based decomposition of the same question and intent.
DecompReplyNeverRaises ==
    (dpc = "done" /\ llm_reply.call = "decomp") =>
        /\ ~decomp_result.raised
        /\ MalformedDecompReply(llm_reply.decomp) =>
              decomp_result.sub_queries =
                  rule_based_decomposition(question, query_intent).sub_queries

\* replies after which the code abandons the LLM's intent answer: no usable
\* message, no JSON object in it, or a complexity_score float() rejects
IntentReplyRejected(reply) ==
    reply.kind # "json" \/ FloatRaises(reply.data.complexity_score)

IntentReplyLacksFields(reply) ==
    /\ reply.kind = "json"
    /\ \/ reply.data.intent_type = ""
       \/ reply.data.complexity_score.kind = "missing"
       \/ reply.data.key_concepts.kind = "missing"
       \/ reply.data.question_type = ""
       \/ reply.data.requires_decomposition = ""

Successes(log) == Flatten([i \in 1..Len(log) |-> log[i].results])

\* the plan indices for which a retrieval of the log returned
SucceededIndices(log) == {log[i].query_idx : i \in {j \in 1..Len(log) : ~log[j].raised}}

\* the plan entries that name a sub-query, in plan order
Attempted(plan, n) == SelectSeq(plan, LAMBDA x : x < n)

\* C4: in execute_decomposed_query a retrieval that raises leaves the
\* execution context and the accumulator as they were and does not end the
\* loop: at any time the sub-queries sent to the retriever are the plan
\* entries reached so far, in plan order, the context holds exactly the
\* indices whose retrieval returned and the accumulator exactly the results
\* of those retrievals; the call ends by returning the fusion of these
\* results, and it raises only on a plan entry that cannot be looked up.
ExecSurvivesRetrieverFailure ==
    LET me   == calls[1]
        d    == me.decomposition
        log  == retriever_log[1]
        done == SubSeq(d.execution_plan, 1, me.step - 1)
    IN  me.pc \in {"exec_loop", "exec_done", "raised"} =>
          /\ [i \in 1..Len(log) |-> log[i].query_idx] = Attempted(done, Len(d.sub_queries))
          /\ DOMAIN execution_context = SucceededIndices(log)
          /\ accumulated_results = Successes(log)
          /\ me.pc = "exec_done" =>
                /\ me.step = Len(d.execution_plan) + 1
                /\ me.all_results = fuse_results(Successes(log), settings)
          /\ me.pc = "raised" =>
                \/ IndexRaises(d.sub_queries, d.execution_plan[me.step])
                \/ ContextRaises(ItemAt(d.sub_queries, d.execution_plan[me.step]))

\* a call returned although a retrieval raised and a later one gave results
ExecSurvivesRetrieverFailureWitness ==
    /\ calls[1].pc = "exec_done"
    /\ calls[1].all_results # <<>>
    /\ \E i, j \in 1..Len(retriever_log[1]) :
          /\ i < j
          /\ retriever_log[1][i].raised
          /\ ~retriever_log[1][j].raised
          /\ retriever_log[1][j].results # <<>>

\* a retrieval for a step of the plan of call c raised
SubQueryRetrievalFailed(c) ==
    \E i \in 1..Len(retriever_log[c]) :
        retriever_log[c][i].phase = "step" /\ retriever_log[c][i].raised

\* C5: a process_query call in which the retrieval for a sub-query raised
\* does not raise, unless the single-pass retrieval of the fall-back raises
\* as well, and the answer it returns is not the empty string.
SubQueryFailureStillAnswers ==
    \A c \in CallIds :
        SubQueryRetrievalFailed(c) =>
            /\ calls[c].pc = "raised" =>
                  LET last == retriever_log[c][Len(retriever_log[c])]
                  IN  last.phase = "single" /\ last.raised
            /\ calls[c].pc = "done" => calls[c].result.answer # <<>>

\* what the execution context of call c would hold if only the retrievals
\* of call c were recorded: the results of the last one that returned
OwnSubResults(c) ==
    LET log == retriever_log[c]
        steps == {i \in 1..Len(log) : log[i].phase = "step" /\ ~log[i].raised}
    IN  [k \in {log[i].query_idx : i \in steps} |->
            log[CHOOSE i \in steps : log[i].query_idx = k
                                     /\ \A j \in steps : log[j].query_idx = k => j <= i].results]

OwnStepResults(c) ==
    LET log == retriever_log[c]
    IN  Flatten([i \in 1..Len(log) |-> IF log[i].phase = "step" THEN log[i].results ELSE <<>>])

\* C6: the multi-step result a process_query call returns reports, for each
\* sub-query, the number of results of the call's own retrieval for it and,
\* as retrieved chunks, the fusion of the results of the call's own
\* retrievals.
CallsOwnTheirResults ==
    \A c \in CallIds :
        calls[c].pc = "done" /\ calls[c].result.query_type = "complex" =>
            /\ calls[c].result.retrieved_chunks = fuse_results(OwnStepResults(c), settings)
            /\ \A i \in 1..Len(calls[c].result.sub_queries) :
                  calls[c].result.sub_queries[i].results_count
                      = Len(ResultsOf(OwnSubResults(c), i - 1))

\* the decomposition of the question of call c
DecompositionOf(c) ==
    analyze_and_decompose(calls[c].query, settings, calls[c].intent_reply,
                          calls[c].decomp_reply)

MultiStepWarranted(c) ==
    /\ settings.enable_decomposition
    /\ ~DecompositionOf(c).raised
    /\ DecompositionOf(c).intent.requires_decomposition
    /\ Len(DecompositionOf(c).sub_queries) > 1

SinglePassCase(c) ==
    \/ ~settings.enable_decomposition
    \/ DecompositionOf(c).raised /\ settings.fallback_to_simple
    \/ /\ ~DecompositionOf(c).raised
       /\ \/ ~DecompositionOf(c).intent.requires_decomposition
          \/ Len(DecompositionOf(c).sub_queries) <= 1

\* C8: a process_query call returns a 'complex' result only if decomposition
\* is enabled, the intent requires it and there is more than one sub-query;
\* if decomposition is disabled, not required, gives at most one sub-query
\* or raises while fallback_to_simple is on, the call retrieves with the
\* original question only, and once that retrieval has returned the result
\* is the 'simple' one made of what that retrieval returned.
ComplexOnlyWhenWarranted ==
    \A c \in CallIds :
        LET log == retriever_log[c]
            res == calls[c].result
        IN  /\ calls[c].pc = "done" /\ res.query_type = "complex" => MultiStepWarranted(c)
            /\ calls[c].pc # "idle" /\ SinglePassCase(c) =>
                  /\ \A i \in 1..Len(log) :
                        log[i].phase = "single" /\ log[i].query = calls[c].query
                  /\ calls[c].pc = "done" /\ log # <<>> /\ ~log[Len(log)].raised =>
                        /\ res.query_type = "simple"
                        /\ res.retrieved_chunks = log[Len(log)].results
                        /\ res.execution_plan = <<0>>
                        /\ res.sub_queries =
                              <<[query |-> calls[c].query,
                                 results_count |-> Len(log[Len(log)].results)]>>

\* a call whose decomposition raised has fallen back to the single pass and
\* returned its chunks
ComplexOnlyWhenWarrantedWitness ==
    /\ calls[1].pc = "done"
    /\ calls[1].result.query_type = "simple"
    /\ calls[1].result.retrieved_chunks # <<>>
    /\ settings.enable_decomposition
    /\ DecompositionOf(1).raised

(***************************************************************************)
(* Properties of out-of-range dependency indices.                          *)
(***************************************************************************)
\* the sub-queries with every depends_on entry outside 0..n-1 removed
WithoutOutOfRangeDeps(sqs) ==
    [i \in 1..Len(sqs) |->
        IF sqs[i].depends_on.kind = "list"
        THEN [sqs[i] EXCEPT !.depends_on =
                 JList(SelectSeq(sqs[i].depends_on.items,
                                 LAMBDA dep : dep.kind = "num" /\ dep.v \in ValidIndices(sqs)))]
        ELSE sqs[i]]

\* C11: a dependency index outside 0..n-1 does not influence planning: the
\* finished plan is the plan of the same sub-queries with such indices
\* removed from depends_on, and it holds no value outside 0..n-1.
OutOfRangeDepsIgnored ==
    pl.pc = "done" =>
        /\ pl.execution_plan
              = generate_execution_plan(WithoutOutOfRangeDeps(pl.sub_queries)).execution_plan
        /\ Range(pl.execution_plan) \subseteq ValidIndices(pl.sub_queries)

(***************************************************************************)
(* Properties of the context handed from a step to the steps that depend   *)
(* on it.                                                                  *)
(***************************************************************************)
\* the results recorded for plan index k by the retrievals before the i-th
\* one of a log: those of the last retrieval for k that returned, or none
ResultsBefore(log, i, k) ==
    LET earlier == {j \in 1..(i - 1) : ~log[j].raised /\ log[j].query_idx = k}
    IN  IF earlier = {} THEN <<>>
        ELSE log[CHOOSE j \in earlier : \A h \in earlier : h <= j].results

\* the entries of depends_on whose step gave results before the i-th retrieval
SatisfiedDeps(log, i, sub_query) ==
    IF sub_query.depends_on.kind # "list" THEN <<>>
    ELSE SelectSeq(sub_query.depends_on.items,
                   LAMBDA dep : dep.kind = "num" /\ ResultsBefore(log, i, dep.v) # <<>>)

\* how many context parts the satisfied dependencies may contribute
RECURSIVE TopTwoCount(_, _, _)
TopTwoCount(log, i, deps) ==
    IF deps = <<>> THEN 0
    ELSE Min(2, Len(ResultsBefore(log, i, Head(deps).v))) + TopTwoCount(log, i, Tail(deps))

\* the characters of the top 2 results of the satisfied dependencies
TopTwoTokens(log, i, deps) ==
    UNION {UNION {{tok.t : tok \in Range(Take(ResultsBefore(log, i, deps[d].v), 2)[r].content)}
                    : r \in 1..Min(2, Len(ResultsBefore(log, i, deps[d].v)))}
             : d \in 1..Len(deps)}

ChunkTokenNames == {"c100a", "c100b", "c100c", "s5"}

FusedIsDedupedAndSorted ==
    (calls[1].pc = "exec_done" /\ settings.enable_result_fusion) =>
        \A i, j \in 1..Len(calls[1].all_results) :
            i < j =>
                /\ SliceChars(calls[1].all_results[i].content, 100)
                      # SliceChars(calls[1].all_results[j].content, 100)
                /\ calls[1].all_results[i].score >= calls[1].all_results[j].score

\* a call returned after dropping a chunk that repeats the first 100
\* characters of another and after moving a later, better chunk to the front
FusedIsDedupedAndSortedWitness ==
    /\ calls[1].pc = "exec_done"
    /\ Len(calls[1].all_results) >= 2
    /\ Len(accumulated_results) > Len(calls[1].all_results)
    /\ calls[1].all_results[1] # accumulated_results[1]

(***************************************************************************)
(* Properties of merging and reranking.                                    *)
(***************************************************************************)
Contents(results) == {results[i].content : i \in 1..Len(results)}

\* C14: what _merge_results returns holds no two chunks of the same content,
\* is ordered by non-increasing combined_score, and for every content of the
\* input holds a chunk of that content whose combined_score is the highest
\* of the input chunks of that content.
MergeDedupsAndSorts ==
    (rk.op = "merge" /\ Len(rk.outputs) >= 1) =>
        LET merged == rk.outputs[1]
        IN  /\ \A i, j \in 1..Len(merged) : i # j => merged[i].content # merged[j].content
            /\ \A i, j \in 1..Len(merged) :
                  i < j => merged[i].combined_score >= merged[j].combined_score
            /\ Contents(merged) = Contents(rk.input)
            /\ \A i \in 1..Len(rk.input) :
                  \E j \in 1..Len(merged) :
                     /\ merged[j].content = rk.input[i].content
                     /\ merged[j].combined_score >= combined_score(rk.input[i])
                     /\ \E k \in 1..Len(rk.input) :
                           merged[j] = [rk.input[k] EXCEPT
                                           !.combined_score = combined_score(rk.input[k])]

\* a content that came twice, the lower combined_score first, has been merged
MergeDedupsAndSortsWitness ==
    /\ rk.op = "merge"
    /\ Len(rk.outputs) >= 1
    /\ Len(rk.outputs[1]) >= 2
    /\ \E i, j \in 1..Len(rk.input) :
          /\ i < j
          /\ rk.input[i].content = rk.input[j].content
          /\ combined_score(rk.input[i]) < combined_score(rk.input[j])

\* the key a deduplication compares: the content for _merge_results, the
\* first 100 characters of the content for _fuse_results
DedupKey(op, result) == IF op = "merge" THEN content_hash(result.content) ELSE Fingerprint(result)

BeforeRerank(result) == [result EXCEPT !.rerank_score = JMissing]

\* the entries of a list that are one of two given chunks, in order
OnlyThese(results, u, v) ==
    SelectSeq([i \in 1..Len(results) |-> BeforeRerank(results[i])],
              LAMBDA result : result \in {u, v})

\* C16: what Reranker.rerank returns is a permutation of its input (every
\* chunk as often as in the input), ordered by non-increasing rerank_score,
\* and two chunks of equal rerank_score stand in the order they had in the
\* input.
RerankIsStablePermutation ==
    (rk.op = "rerank" /\ Len(rk.outputs) >= 1) =>
        LET reranked == rk.outputs[1]
            before == [i \in 1..Len(reranked) |-> BeforeRerank(reranked[i])]
        IN  /\ Len(reranked) = Len(rk.input)
            /\ \A chunk \in Range(rk.input) \cup Range(before) :
                  Count(before, chunk) = Count(rk.input, chunk)
            /\ \A i, j \in 1..Len(reranked) :
                  i < j => reranked[i].rerank_score >= reranked[j].rerank_score
            /\ \A i, j \in 1..Len(reranked) :
                  (i # j /\ reranked[i].rerank_score = reranked[j].rerank_score) =>
                      OnlyThese(reranked, before[i], before[j])
                          = OnlyThese(rk.input, before[i], before[j])

\* a list in which a lower-scored chunk came first and two different chunks
\* had the same rerank_score has been reranked
RerankIsStablePermutationWitness ==
    /\ rk.op = "rerank"
    /\ Len(rk.outputs) >= 1
    /\ \E i, j \in 1..Len(rk.input) :
          /\ i < j
          /\ rerank_score(rk.query, rk.input[i], rk.rerank_model)
                < rerank_score(rk.query, rk.input[j], rk.rerank_model)
    /\ \E i, j \in 1..Len(rk.input) :
          /\ i < j
          /\ rk.input[i] # rk.input[j]
          /\ rerank_score(rk.query, rk.input[i], rk.rerank_model)
                = rerank_score(rk.query, rk.input[j], rk.rerank_model)

\* C17: reranking the list rerank just returned, with the same query and the
\* same embedding model or none, leaves the order of the chunks unchanged.
RerankTwiceKeepsOrder ==
    (rk.op = "rerank" /\ Len(rk.outputs) = 2) => rk.outputs[2] = rk.outputs[1]

\* without an embedding model, a list that the first rerank reordered and
\* that holds two different chunks of equal rerank_score was reranked again
RerankTwiceKeepsOrderWitness ==
    /\ rk.op = "rerank"
    /\ rk.rerank_model = "none"
    /\ Len(rk.outputs) = 2
    /\ [i \in 1..Len(rk.outputs[1]) |-> BeforeRerank(rk.outputs[1][i])] # rk.input
    /\ \E i, j \in 1..Len(rk.outputs[1]) :
          /\ i < j
          /\ rk.outputs[1][i] # rk.outputs[1][j]
          /\ rk.outputs[1][i].rerank_score = rk.outputs[1][j].rerank_score

(***************************************************************************)
(* Properties of the scenario questions.                                   *)
(***************************************************************************)
\* C18: for the question "比较A和B的优缺点" without an LLM and with the
\* default threshold 6.0, analyze_and_decompose returns at least three
\* sub-queries, and the last entry of the execution plan is a comparison
\* sub-query that depends on two other sub-queries.
CompareABIsDecomposed ==
    (dpc = "done" /\ question = CompareAB /\ ~settings.llm
        /\ settings.decomposition_threshold = 600) =>
        /\ ~decomp_result.raised
        /\ Len(decomp_result.sub_queries) >= 3
        /\ decomp_result.execution_plan # <<>>
        /\ LET last == decomp_result.execution_plan[Len(decomp_result.execution_plan)]
           IN  /\ last \in ValidIndices(decomp_result.sub_queries)
               /\ Cardinality({j \in ValidIndices(decomp_result.sub_queries) :
                                  j # last /\ DependsOn(decomp_result.sub_queries, last, j)}) >= 2

\* every retrieval of call c returned, and returned no chunk
NoHitsAtAll(c) ==
    /\ retriever_log[c] # <<>>
    /\ \A i \in 1..Len(retriever_log[c]) :
          ~retriever_log[c][i].raised /\ retriever_log[c][i].results = <<>>

\* the answers that say that no relevant information was found
NoInfoAnswers == {SorryNoInfo, SorryNoInfoForQuestion}

\* C19: a process_query call all of whose retrievals returned no chunk does
\* not raise and answers with a 'no relevant information' message, on the
\* single-pass path and on the multi-step path, with and without an LLM and
\* whatever the LLM replies.
NoHitsGiveNoInfoAnswer ==
    \A c \in CallIds :
        (NoHitsAtAll(c) /\ calls[c].pc \in {"done", "raised", "except"}) =>
            /\ calls[c].pc = "done"
            /\ calls[c].result.query_type \in {"simple", "complex"}
            /\ calls[c].result.answer \in NoInfoAnswers

\* the retrievals of call c for a step of the plan that gave chunks
ProducingSteps(c) ==
    {i \in 1..Len(retriever_log[c]) :
        /\ retriever_log[c][i].phase = "step"
        /\ ~retriever_log[c][i].raised
        /\ retriever_log[c][i].results # <<>>}

\* the answers made directly from a list of chunks
DirectAnswers(query, results) ==
    {generate_simple_answer(query, results, settings, reply) : reply \in AnswerRepliesOf(settings)}
    \cup {simple_result_combination(fuse_results(results, settings))}

\* C20: when exactly one step of a multi-step call produced results, the
\* others returning no chunk or raising, the synthesis prompt is not built
\* and the answer is made directly from the results of that step.
OneProducingStepAnswersDirectly ==
    \A c \in CallIds :
        (calls[c].pc = "done" /\ calls[c].result.query_type = "complex"
            /\ Cardinality(ProducingSteps(c)) = 1) =>
            LET only == CHOOSE i \in ProducingSteps(c) : TRUE
            IN  /\ calls[c].synthesis # "prompt"
                /\ calls[c].result.answer
                      \in DirectAnswers(calls[c].query, retriever_log[c][only].results)

(***************************************************************************)
(* Properties of the intent analysis and of the rule-based decomposition.  *)
(***************************************************************************)
\* C21: the complexity_score of every QueryIntent that _analyze_query_intent
\* returns lies within [0, 10], whether the rules or the LLM's reply made it.
ComplexityScoreInRange ==
    dpc \in {"decompose", "done"} =>
        query_intent.complexity_score >= 0 /\ query_intent.complexity_score <= 1000

\* the intent type the stated precedence gives a question under a threshold
IntentTypeByPrecedence(query, config) ==
    IF AnyIn({"bijiao", "duibi", "qubie"}, query) THEN "comparative"
    ELSE IF AnyIn({"he", "yu", "yiji"}, query) /\ RawComplexity(query) > 500 THEN "multi_aspect"
    ELSE IF RawComplexity(query) > config.decomposition_threshold THEN "complex"
    ELSE "simple"

\* C22: the intent the rule-based estimator returns has the type the
\* precedence gives (comparison keyword, then connective with a score above
\* 5.0, then 'complex' exactly for a score above the configured threshold,
\* else 'simple'), and an intent that requires decomposition is not 'simple'.
RuleIntentFollowsPrecedence ==
    (dpc \in {"decompose", "done"} /\ query_intent.reasoning.text = "rule") =>
        /\ query_intent.intent_type = IntentTypeByPrecedence(question, settings)
        /\ query_intent.requires_decomposition => query_intent.intent_type # "simple"

(***************************************************************************)
(* Further properties of the executor.                                     *)
(***************************************************************************)
\* the text in front of the literal "\n\n基于以上信息，", if the literal occurs
RECURSIVE ContextBlock(_)
ContextBlock(str) ==
    IF str = <<>> \/ Head(str).t = "jiyu-yishang-xinxi" THEN <<>>
    ELSE <<Head(str)>> \o ContextBlock(Tail(str))

HasContextBlock(str) == \E i \in 1..Len(str) : str[i].t = "jiyu-yishang-xinxi"

\* C23: the context block in front of a sub-query sent to the retriever is
\* never longer than max_context_length characters.
ContextBlockIsBounded ==
    \A c \in CallIds : \A i \in 1..Len(retriever_log[c]) :
        HasContextBlock(retriever_log[c][i].query) =>
            StrLen(ContextBlock(retriever_log[c][i].query)) <= settings.max_context_length

\* the key concepts of the intent handed to the rules
RuleKeyConcepts == query_intent.key_concepts.items

\* sub-query names no dependency (depends_on is the default None, or empty)
NoDependencies(sub_query) == Falsy(sub_query.depends_on)

\* C24: for a 'comparative' intent (with the two concepts to compare) the
\* rules give three sub-queries: one for each of the first two key concepts,
\* without dependencies, then the comparison with depends_on [0, 1] and
\* context_needed, and the plan runs the comparison last.
ComparativeRuleDecomposition ==
    (dpc \in {"decomposed", "planned"} /\ query_intent.intent_type = "comparative"
        /\ Len(RuleKeyConcepts) >= 2) =>
        LET sqs == decomp_result.sub_queries
        IN  /\ Len(sqs) = 3
            /\ \A i \in 1..2 :
                  /\ NoDependencies(sqs[i])
                  /\ sqs[i].query = RuleKeyConcepts[i] \o <<W("de-tedian-he-shuxing")>>
            /\ sqs[3].depends_on = IntList(<<0, 1>>)
            /\ sqs[3].context_needed
            /\ dpc = "planned" =>
                  /\ decomp_result.execution_plan = <<0, 1, 2>>

\* a comparative intent with more than two concepts has been decomposed and planned
ComparativeRuleDecompositionWitness ==
    /\ dpc = "planned"
    /\ query_intent.intent_type = "comparative"
    /\ Len(RuleKeyConcepts) > 2
    /\ RuleKeyConcepts[1] # RuleKeyConcepts[2]

\* the dependencies a sub-query names, as a set of 0-based indices
DependsOnSet(sub_query) ==
    IF sub_query.depends_on.kind = "list"
    THEN {sub_query.depends_on.items[j].v : j \in 1..Len(sub_query.depends_on.items)}
    ELSE {}

\* C25: for a 'multi_aspect' intent with k key concepts the rules give
\* min(k, 3) sub-queries without dependencies, one per concept, and, exactly
\* when k > 1, one more sub-query after them that depends on every earlier
\* index and needs context.
MultiAspectRuleDecomposition ==
    (dpc \in {"decomposed", "planned"} /\ query_intent.intent_type = "multi_aspect") =>
        LET sqs == decomp_result.sub_queries
            k   == Len(RuleKeyConcepts)
            a   == Min(k, 3)
        IN  /\ Len(sqs) = a + (IF k > 1 THEN 1 ELSE 0)
            /\ \A i \in 1..a :
                  /\ NoDependencies(sqs[i])
                  /\ ~sqs[i].context_needed
                  /\ sqs[i].query = RuleKeyConcepts[i] \o <<W("de-xiangxi-xinxi-he-xiangguan-neirong")>>
            /\ k > 1 =>
                  /\ sqs[a + 1].depends_on.kind = "list"
                  /\ Len(sqs[a + 1].depends_on.items) = a
                  /\ DependsOnSet(sqs[a + 1]) = 0..(a - 1)
                  /\ sqs[a + 1].context_needed

\* a multi-aspect intent with more than three concepts has been decomposed
\* into three aspects and their synthesis
MultiAspectRuleDecompositionWitness ==
    /\ dpc = "planned"
    /\ query_intent.intent_type = "multi_aspect"
    /\ Len(RuleKeyConcepts) > 3
    /\ Len(decomp_result.sub_queries) = 4
    /\ decomp_result.sub_queries[4].depends_on = IntList(<<0, 1, 2>>)

\* C26: for a 'complex' intent whose question type is procedural or
\* analytical the rules give exactly two sub-queries, the first without
\* dependencies and the second depending on index 0, whatever the list of
\* key concepts, the empty list included.
ComplexRuleDecompositionHasTwoSteps ==
    (dpc \in {"decomposed", "planned"} /\ query_intent.intent_type = "complex"
        /\ query_intent.question_type \in {"procedural", "analytical"}) =>
        LET sqs == decomp_result.sub_queries
        IN  /\ Len(sqs) = 2
            /\ NoDependencies(sqs[1])
            /\ sqs[2].depends_on = IntList(<<0>>)

\* an analytical complex intent without key concepts has been decomposed
\* into no sub-query at all
AnalyticalWithoutConceptsGivesNothing ==
    /\ dpc = "planned"
    /\ query_intent.intent_type = "complex"
    /\ query_intent.question_type = "analytical"
    /\ RuleKeyConcepts = <<>>
    /\ decomp_result.sub_queries = <<>>
    /\ decomp_result.execution_plan = <<>>

\* C27: a rule-based decomposition is well-formed: every index a sub-query
\* depends on is in range and smaller than the sub-query's own index, the
\* priorities do not decrease along the list, and the execution plan is
\* the sub-queries in list order.
RuleDecompositionIsWellFormed ==
    dpc \in {"decomposed", "planned"} =>
        LET sqs == decomp_result.sub_queries
            n   == Len(sqs)
        IN  /\ \A i \in 1..n :
                  /\ sqs[i].priority.kind = "num"
                  /\ \A d \in DependsOnSet(sqs[i]) : d >= 0 /\ d < i - 1
            /\ \A i \in 1..n : \A j \in 1..n :
                  i < j => sqs[i].priority.v <= sqs[j].priority.v
            /\ dpc = "planned" => decomp_result.execution_plan = [i \in 1..n |-> i - 1]

\* a decomposition with a dependent sub-query of a higher priority number
\* has been planned
RuleDecompositionIsWellFormedWitness ==
    /\ dpc = "planned"
    /\ \E i \in 1..Len(decomp_result.sub_queries) :
          /\ DependsOnSet(decomp_result.sub_queries[i]) # {}
          /\ decomp_result.sub_queries[i].priority.v > decomp_result.sub_queries[1].priority.v
    /\ Len(decomp_result.execution_plan) = Len(decomp_result.sub_queries)

\* C28: whenever analyze_and_decompose returns, its result holds at least
\* one sub-query and a non-empty execution plan; this includes the runs in
\* which decomposition is required and the rules have fewer than two (or
\* no) key concepts to work with, and those in which the LLM's reply holds
\* an empty "sub_queries" list.
DecompositionIsNeverEmpty ==
    (dpc = "done" /\ ~decomp_result.raised) =>
        /\ Len(decomp_result.sub_queries) >= 1
        /\ decomp_result.execution_plan # <<>>

\* the rules were asked to decompose (no usable LLM decomposition) and the
\* call returned no sub-query
RulesReturnedNothing ==
    /\ dpc = "done" /\ ~decomp_result.raised
    /\ query_intent.requires_decomposition
    /\ llm_reply.decomp.kind # "json"
    /\ decomp_result.sub_queries = <<>>

\* the LLM's reply held an empty "sub_queries" list and the call returned
\* no sub-query
EmptyReplyReturnedNothing ==
    /\ dpc = "done" /\ ~decomp_result.raised
    /\ llm_reply.call = "decomp"
    /\ llm_reply.decomp.kind = "json" /\ llm_reply.decomp.sq_kind = "list"
    /\ llm_reply.decomp.items = <<>>
    /\ decomp_result.sub_queries = <<>>

\* the position in the accumulated list of the first chunk sharing the
\* fingerprint of the chunk at position i
FirstWithFingerprint(i) ==
    CHOOSE j \in 1..i :
        /\ Fingerprint(accumulated_results[j]) = Fingerprint(accumulated_results[i])
        /\ \A k \in 1..(j - 1) :
              Fingerprint(accumulated_results[k]) # Fingerprint(accumulated_results[i])

\* C29: with result fusion enabled, of the accumulated chunks that share
\* their first 100 characters the fused list holds the one accumulated
\* first, in the order the plan ran, and no other, whatever the scores of
\* the later ones (duplicates are removed before the list is sorted).
FusionKeepsFirstAccumulated ==
    (calls[1].pc = "exec_done" /\ settings.enable_result_fusion) =>
        LET fused == calls[1].all_results
        IN  \A i \in 1..Len(accumulated_results) :
                LET kept == accumulated_results[FirstWithFingerprint(i)]
                IN  /\ \E j \in 1..Len(fused) : fused[j] = kept
                    /\ \A j \in 1..Len(fused) :
                          Fingerprint(fused[j]) = Fingerprint(kept) => fused[j] = kept

\* a call returned whose accumulated list holds a chunk and, later, a
\* better-scored chunk with the same first 100 characters
FusionKeepsFirstAccumulatedWitness ==
    /\ calls[1].pc = "exec_done" /\ settings.enable_result_fusion
    /\ \E i, j \in 1..Len(accumulated_results) :
          /\ i < j
          /\ Fingerprint(accumulated_results[i]) = Fingerprint(accumulated_results[j])
          /\ accumulated_results[i].score < accumulated_results[j].score
          /\ \E k \in 1..Len(calls[1].all_results) :
                calls[1].all_results[k] = accumulated_results[i]

\* top_k as the call uses it: the argument, or the configured top_k, or 10
EffectiveTopK == IF hr.top_k.kind = "null" THEN NumOr(hr.config.top_k, 10) ELSE hr.top_k.v

\* the candidates of the call after merging, and how many contents they hold
MergedCandidates == merge_results(hr.bm25_results \o hr.vector_results)

DistinctCandidates == Cardinality(Contents(hr.bm25_results \o hr.vector_results))

\* rerank_top_k as the call uses it: the configured one, or without one
\* twice top_k, at most the number of merged candidates
EffectiveRerankTopK ==
    NumOr(hr.config.rerank_top_k, Min(EffectiveTopK * 2, DistinctCandidates))

\* C30: retrieve returns at most top_k chunks; with reranking enabled it
\* returns min(top_k, rerank_top_k, number of distinct candidates) chunks,
\* all of them among the first rerank_top_k merged candidates, so that a
\* rerank_top_k smaller than top_k caps the result below top_k.
RetrieveIsCappedByRerankTopK ==
    hr.pc = "returned" =>
        /\ Len(hr.final_results) <= EffectiveTopK
        /\ hr.enable_rerank =>
              /\ Len(hr.final_results) =
                    Min(EffectiveTopK, Min(EffectiveRerankTopK, DistinctCandidates))
              /\ Contents(hr.final_results)
                    \subseteq Contents(Take(MergedCandidates, EffectiveRerankTopK))

\* a call with the shipped configuration (top_k 10, rerank_top_k 5) and six
\* distinct candidates returned five chunks
RetrieveIsCappedByRerankTopKWitness ==
    /\ hr.pc = "returned" /\ hr.enable_rerank
    /\ hr.config = RETRIEVAL_CONFIG /\ hr.top_k = JNull
    /\ DistinctCandidates = 6
    /\ Len(hr.final_results) = 5

====
